---------------------------- MODULE Spec2Model ----------------------------
(***************************************************************************)
(* Order pricing and settlement of the Dritchwear storefront.              *)
(*                                                                         *)
(* The checkout screen (src/app/(customer)/checkout.tsx) prices a cart in  *)
(* the base currency NGN and settles it either against the wallet          *)
(* (handleOrder -> processWalletPayment) or through an external payment    *)
(* processor (handleOrder -> Paystack/PayPal modal -> success callback ->  *)
(* completeOnlinePayment).  The fee functions live at the end of           *)
(* src/components/ProductModal.tsx.                                        *)
(*                                                                         *)
(* Representation.                                                         *)
(*  - An amount of money is an integer number of ten-thousandths of the    *)
(*    currency's major unit (10000 = 1.00 NGN, 100 = one kobo).  Prices    *)
(*    are whole kobo and promo fractions whole percents, so every value    *)
(*    the state holds is exact in this unit.  The two roundings of the fee *)
(*    functions are computed in binary64, as JavaScript computes them.     *)
(*  - A string is a sequence of one-character strings, so that trim(),     *)
(*    toLowerCase() and includes() are computed and not assumed.           *)
(*  - Every `await` of an async handler is a step: the handler's position  *)
(*    is kept in a thread record (walletRun, onlineRun[i]) together with   *)
(*    the values its closure captured when the handler started.            *)
(***************************************************************************)
EXTENDS Integers, Sequences, FiniteSets, TLC

(***************************************************************************)
(* Bounds of the model.                                                    *)
(***************************************************************************)
\* settlement attempts started on one checkout screen: handleOrder invocations
\* (button presses) and success callbacks delivered a second time
MaxAttempts == 2
\* completeOnlinePayment runs that may be in flight at the same time
MaxInFlight == 1

None == "none"

(***************************************************************************)
(* Strings.                                                                *)
(***************************************************************************)
Str_Lagos == <<"L", "a", "g", "o", "s">>
Str_EnuguPadded == <<" ", "E", "n", "u", "g", "u", " ">>
Str_Blank == <<" ", " ">>
Str_Empty == << >>

UpperChars == <<"A", "B", "C", "D", "E", "F", "G", "H", "I", "J", "K", "L", "M",
                "N", "O", "P", "Q", "R", "S", "T", "U", "V", "W", "X", "Y", "Z">>
LowerChars == <<"a", "b", "c", "d", "e", "f", "g", "h", "i", "j", "k", "l", "m",
                "n", "o", "p", "q", "r", "s", "t", "u", "v", "w", "x", "y", "z">>

\* String.prototype.toLowerCase, one character
ToLowerChar(c) ==
  IF \E i \in 1..Len(UpperChars) : UpperChars[i] = c
    THEN LowerChars[CHOOSE i \in 1..Len(UpperChars) : UpperChars[i] = c]
    ELSE c

\* String.prototype.toLowerCase
ToLowerCase(s) == [i \in 1..Len(s) |-> ToLowerChar(s[i])]

IsSpace(c) == c \in {" ", "\t", "\n"}

RECURSIVE TrimStart(_)
TrimStart(s) ==
  IF s = << >> THEN s
  ELSE IF IsSpace(Head(s)) THEN TrimStart(Tail(s)) ELSE s

RECURSIVE TrimEnd(_)
TrimEnd(s) ==
  IF s = << >> THEN s
  ELSE IF IsSpace(s[Len(s)]) THEN TrimEnd(SubSeq(s, 1, Len(s) - 1)) ELSE s

\* String.prototype.trim
Trim(s) == TrimEnd(TrimStart(s))

\* String.prototype.includes
Includes(s, sub) ==
  \E i \in 0..(Len(s) - Len(sub)) : SubSeq(s, i + 1, i + Len(sub)) = sub

(***************************************************************************)
(* Money.                                                                  *)
(***************************************************************************)
\* n major units (naira, dollars) as an amount
Major(n) == n * 10000
\* n hundredths (kobo, cents) as an amount
Minor(n) == n * 100

(***************************************************************************)
(* Numbers.  The amounts of the state are decimals (Major, Minor).  The    *)
(* two roundings of ProductModal.tsx (lines 551 and 577) are decided by    *)
(* the arithmetic of JavaScript numbers, IEEE 754 binary64, which is       *)
(* computed here: a number is m * 2^e with the natural m held in limbs,    *)
(* least significant first.  An amount enters the arithmetic as the number *)
(* nearest to its decimal.                                                 *)
(***************************************************************************)
\* bits of a limb: products of two limbs stay below 2^31
LimbBits == 14
\* bits of the significand of a binary64 number
SignificandBits == 53

Pow2(n) == 2^n
LimbBase == Pow2(LimbBits)

RECURSIVE ToLimbs(_)
ToLimbs(n) == IF n = 0 THEN << >> ELSE <<n % LimbBase>> \o ToLimbs(n \div LimbBase)

RECURSIVE ToInt(_)
ToInt(a) == IF a = << >> THEN 0 ELSE a[1] + LimbBase * ToInt(Tail(a))

\* without the zero limbs at the top
RECURSIVE Normalize(_)
Normalize(a) ==
  IF a = << >> THEN << >>
  ELSE IF a[Len(a)] = 0 THEN Normalize(SubSeq(a, 1, Len(a) - 1))
  ELSE a

Limb(a, i) == IF i \in 1..Len(a) THEN a[i] ELSE 0

BitLen(a) ==
  IF a = << >> THEN 0
  ELSE LimbBits * (Len(a) - 1)
         + (CHOOSE n \in 1..LimbBits : Pow2(n) > a[Len(a)] /\ Pow2(n - 1) <= a[Len(a)])

BitAt(a, i) == (Limb(a, (i \div LimbBits) + 1) \div Pow2(i % LimbBits)) % 2

\* the n lowest bits of a are zero
LowBitsZero(a, n) ==
  /\ \A j \in 1..(n \div LimbBits) : Limb(a, j) = 0
  /\ Limb(a, (n \div LimbBits) + 1) % Pow2(n % LimbBits) = 0

ShiftRight(a, r) ==
  LET w == r \div LimbBits
      t == r % LimbBits
      n == Len(a) - w
  IN IF n <= 0 THEN << >>
     ELSE Normalize([i \in 1..n |->
            (Limb(a, i + w) \div Pow2(t))
              + (Limb(a, i + w + 1) % Pow2(t)) * Pow2(LimbBits - t)])

ShiftLeft(a, r) ==
  LET w == r \div LimbBits
      t == r % LimbBits
      n == Len(a) + w + 1
  IN IF a = << >> THEN << >>
     ELSE Normalize([i \in 1..n |->
            (Limb(a, i - w) % Pow2(LimbBits - t)) * Pow2(t)
              + (Limb(a, i - w - 1) \div Pow2(LimbBits - t))])

RECURSIVE AddLimbs(_, _, _)
AddLimbs(a, b, carry) ==
  IF a = << >> /\ b = << >> THEN ToLimbs(carry)
  ELSE LET s == Limb(a, 1) + Limb(b, 1) + carry
       IN <<s % LimbBase>>
            \o AddLimbs(IF a = << >> THEN a ELSE Tail(a),
                        IF b = << >> THEN b ELSE Tail(b), s \div LimbBase)

\* a - b - borrow for a >= b + borrow
RECURSIVE SubLimbs(_, _, _)
SubLimbs(a, b, borrow) ==
  IF a = << >> THEN << >>
  ELSE LET d == a[1] - Limb(b, 1) - borrow
       IN <<(d + LimbBase) % LimbBase>>
            \o SubLimbs(Tail(a), IF b = << >> THEN b ELSE Tail(b), IF d < 0 THEN 1 ELSE 0)

\* a * s + carry for a small s
RECURSIVE MulSmall(_, _, _)
MulSmall(a, s, carry) ==
  IF a = << >> THEN ToLimbs(carry)
  ELSE LET p == a[1] * s + carry
       IN <<p % LimbBase>> \o MulSmall(Tail(a), s, p \div LimbBase)

RECURSIVE MulLimbs(_, _)
MulLimbs(a, b) ==
  IF b = << >> THEN << >>
  ELSE Normalize(AddLimbs(MulSmall(a, b[1], 0), <<0>> \o MulLimbs(a, Tail(b)), 0))

\* quotient and remainder of a by a small d
RECURSIVE DivRem(_, _)
DivRem(a, d) ==
  IF a = << >> THEN [q |-> << >>, r |-> 0]
  ELSE LET hi == DivRem(Tail(a), d)
           cur == hi.r * LimbBase + a[1]
       IN [q |-> <<cur \div d>> \o hi.q, r |-> cur % d]

\* m * 2^e rounded to the nearest number, ties to the even significand;
\* `inexact` says that m itself was cut off below its last bit
RoundToNumber(m, e, inexact) ==
  LET r == BitLen(m) - SignificandBits
  IN IF r <= 0 THEN [m |-> m, e |-> e]
     ELSE LET q == ShiftRight(m, r)
              up == /\ BitAt(m, r - 1) = 1
                    /\ \/ ~LowBitsZero(m, r - 1)
                       \/ inexact
                       \/ BitAt(q, 0) = 1
          IN [m |-> IF up THEN AddLimbs(q, <<1>>, 0) ELSE q, e |-> e + r]

\* the number nearest to the decimal n / d: a literal, a parsed value, or the
\* quotient of the division n / d
FromDecimal(n, d) ==
  IF n = 0 THEN [m |-> << >>, e |-> 0]
  ELSE LET qr == DivRem(ShiftLeft(ToLimbs(n), 5 * LimbBits), d)
       IN RoundToNumber(Normalize(qr.q), 0 - 5 * LimbBits, qr.r # 0)

\* x * y
Times(x, y) == RoundToNumber(MulLimbs(x.m, y.m), x.e + y.e, FALSE)

\* x + y
Plus(x, y) ==
  LET e == IF x.e < y.e THEN x.e ELSE y.e
  IN RoundToNumber(AddLimbs(ShiftLeft(x.m, x.e - e), ShiftLeft(y.m, y.e - e), 0), e, FALSE)

\* x - y for x >= y
Minus(x, y) ==
  LET e == IF x.e < y.e THEN x.e ELSE y.e
  IN RoundToNumber(Normalize(SubLimbs(ShiftLeft(x.m, x.e - e), ShiftLeft(y.m, y.e - e), 0)),
                   e, FALSE)

\* Math.round(x) for x >= 0: the nearest integer, a half goes up
MathRound(x) ==
  IF x.e >= 0 THEN ToInt(ShiftLeft(x.m, x.e))
  ELSE ToInt(ShiftRight(x.m, 0 - x.e)) + BitAt(x.m, (0 - x.e) - 1)

\* the number an amount is held as
ToNumber(amount) == FromDecimal(amount, 10000)

\* the amount a number x >= 0 is shown as: its nearest decimal of four places
ToAmount(x) == MathRound([m |-> MulSmall(x.m, 10000, 0), e |-> x.e])

\* the literal 100
Hundred == FromDecimal(100, 1)

\* Math.round(x * 100) / 100 for a number x >= 0, as an amount
RoundToCents(x) == Minor(MathRound(Times(x, Hundred)))

(***************************************************************************)
(* Fees (src/components/ProductModal.tsx, lines 475-630).                  *)
(***************************************************************************)
\* SERVICE_FEE_PERCENTAGE = 0.02, as a percentage
SERVICE_FEE_PERCENTAGE == 2

DELIVERY_FEES_BY_CURRENCY ==
  [ NGN |-> [local |-> Major(3500), national |-> Major(5000), international |-> Major(15000)],
    USD |-> [local |-> Major(5), national |-> Major(8), international |-> Major(25)],
    EUR |-> [local |-> Major(4), national |-> Major(7), international |-> Major(20)],
    GBP |-> [local |-> Major(4), national |-> Major(6), international |-> Major(18)],
    CAD |-> [local |-> Major(6), national |-> Major(9), international |-> Major(28)],
    AUD |-> [local |-> Major(6), national |-> Major(9), international |-> Major(30)],
    JPY |-> [local |-> Major(500), national |-> Major(800), international |-> Major(2500)],
    CHF |-> [local |-> Major(4), national |-> Major(7), international |-> Major(20)],
    CNY |-> [local |-> Major(30), national |-> Major(50), international |-> Major(150)],
    INR |-> [local |-> Major(300), national |-> Major(500), international |-> Major(1500)],
    ZAR |-> [local |-> Major(80), national |-> Major(120), international |-> Major(400)] ]

nigerianStates ==
  << <<"a", "b", "i", "a">>,
     <<"a", "d", "a", "m", "a", "w", "a">>,
     <<"a", "k", "w", "a", " ", "i", "b", "o", "m">>,
     <<"a", "n", "a", "m", "b", "r", "a">>,
     <<"b", "a", "u", "c", "h", "i">>,
     <<"b", "a", "y", "e", "l", "s", "a">>,
     <<"b", "e", "n", "u", "e">>,
     <<"b", "o", "r", "n", "o">>,
     <<"c", "r", "o", "s", "s", " ", "r", "i", "v", "e", "r">>,
     <<"d", "e", "l", "t", "a">>,
     <<"e", "b", "o", "n", "y", "i">>,
     <<"e", "d", "o">>,
     <<"e", "k", "i", "t", "i">>,
     <<"e", "n", "u", "g", "u">>,
     <<"g", "o", "m", "b", "e">>,
     <<"i", "m", "o">>,
     <<"j", "i", "g", "a", "w", "a">>,
     <<"k", "a", "d", "u", "n", "a">>,
     <<"k", "a", "n", "o">>,
     <<"k", "a", "t", "s", "i", "n", "a">>,
     <<"k", "e", "b", "b", "i">>,
     <<"k", "o", "g", "i">>,
     <<"k", "w", "a", "r", "a">>,
     <<"n", "a", "s", "a", "r", "a", "w", "a">>,
     <<"n", "i", "g", "e", "r">>,
     <<"o", "g", "u", "n">>,
     <<"o", "n", "d", "o">>,
     <<"o", "s", "u", "n">>,
     <<"o", "y", "o">>,
     <<"p", "l", "a", "t", "e", "a", "u">>,
     <<"r", "i", "v", "e", "r", "s">>,
     <<"s", "o", "k", "o", "t", "o">>,
     <<"t", "a", "r", "a", "b", "a">>,
     <<"y", "o", "b", "e">>,
     <<"z", "a", "m", "f", "a", "r", "a">>,
     <<"a", "b", "u", "j", "a">>,
     <<"f", "c", "t">> >>

nigerianCities ==
  << <<"a", "b", "u", "j", "a">>,
     <<"k", "a", "n", "o">>,
     <<"i", "b", "a", "d", "a", "n">>,
     <<"k", "a", "d", "u", "n", "a">>,
     <<"p", "o", "r", "t", " ", "h", "a", "r", "c", "o", "u", "r", "t">>,
     <<"b", "e", "n", "i", "n">>,
     <<"m", "a", "i", "d", "u", "g", "u", "r", "i">>,
     <<"z", "a", "r", "i", "a">>,
     <<"a", "b", "a">>,
     <<"j", "o", "s">>,
     <<"i", "l", "o", "r", "i", "n">>,
     <<"o", "y", "o">>,
     <<"e", "n", "u", "g", "u">>,
     <<"a", "b", "e", "o", "k", "u", "t", "a">>,
     <<"a", "b", "u", "j", "a">>,
     <<"s", "o", "k", "o", "t", "o">>,
     <<"o", "n", "i", "t", "s", "h", "a">>,
     <<"w", "a", "r", "r", "i">>,
     <<"o", "k", "e", "n", "e">>,
     <<"c", "a", "l", "a", "b", "a", "r">>,
     <<"u", "y", "o">>,
     <<"k", "a", "t", "s", "i", "n", "a">>,
     <<"a", "d", "o", "-", "e", "k", "i", "t", "i">>,
     <<"a", "w", "k", "a">>,
     <<"b", "a", "u", "c", "h", "i">>,
     <<"a", "k", "u", "r", "e">>,
     <<"m", "a", "k", "u", "r", "d", "i">>,
     <<"l", "a", "f", "i", "a">>,
     <<"g", "o", "m", "b", "e">>,
     <<"y", "e", "n", "a", "g", "o", "a">>,
     <<"j", "a", "l", "i", "n", "g", "o">>,
     <<"o", "w", "e", "r", "r", "i">>,
     <<"a", "b", "a", "k", "a", "l", "i", "k", "i">>,
     <<"d", "u", "t", "s", "e">>,
     <<"d", "a", "m", "a", "t", "u", "r", "u">>,
     <<"g", "u", "s", "a", "u">>,
     <<"y", "o", "l", "a">>,
     <<"m", "i", "n", "n", "a">>,
     <<"b", "i", "r", "n", "i", "n", " ", "k", "e", "b", "b", "i">>,
     <<"l", "o", "k", "o", "j", "a">>,
     <<"o", "s", "o", "g", "b", "o">> >>

Str_lagos == <<"l", "a", "g", "o", "s">>
Str_nigeria == <<"n", "i", "g", "e", "r", "i", "a">>
Str_international == <<"i", "n", "t", "e", "r", "n", "a", "t", "i", "o", "n", "a", "l">>
Str_worldwide == <<"w", "o", "r", "l", "d", "w", "i", "d", "e">>
Str_global == <<"g", "l", "o", "b", "a", "l">>

\* calculateDeliveryFee that compares the location as it was typed
calculateDeliveryFee_CaseSensitive(location, currency) ==
  LET fees == IF currency \in DOMAIN DELIVERY_FEES_BY_CURRENCY
                THEN DELIVERY_FEES_BY_CURRENCY[currency]
                ELSE DELIVERY_FEES_BY_CURRENCY["NGN"]
      normalizedLocation == Trim(location)
  IN IF location = << >> THEN fees.local
     ELSE IF currency = "NGN" /\ Includes(normalizedLocation, Str_lagos) THEN fees.local
     ELSE IF currency = "NGN"
       THEN IF \/ Includes(normalizedLocation, Str_nigeria)
               \/ \E i \in 1..Len(nigerianStates) : Includes(normalizedLocation, nigerianStates[i])
               \/ \E i \in 1..Len(nigerianCities) : Includes(normalizedLocation, nigerianCities[i])
              THEN fees.national
              ELSE fees.international
     ELSE IF \/ Includes(normalizedLocation, Str_international)
             \/ Includes(normalizedLocation, Str_worldwide)
             \/ Includes(normalizedLocation, Str_global)
       THEN fees.international
     ELSE fees.national

calculateDeliveryFee(location, currency) ==
  LET fees == IF currency \in DOMAIN DELIVERY_FEES_BY_CURRENCY
                THEN DELIVERY_FEES_BY_CURRENCY[currency]
                ELSE DELIVERY_FEES_BY_CURRENCY["NGN"]
      normalizedLocation == Trim(ToLowerCase(location))
  IN IF location = << >> THEN fees.local
     ELSE IF currency = "NGN" /\ Includes(normalizedLocation, Str_lagos) THEN fees.local
     ELSE IF currency = "NGN"
       THEN IF \/ Includes(normalizedLocation, Str_nigeria)
               \/ \E i \in 1..Len(nigerianStates) : Includes(normalizedLocation, nigerianStates[i])
               \/ \E i \in 1..Len(nigerianCities) : Includes(normalizedLocation, nigerianCities[i])
              THEN fees.national
              ELSE fees.international
     ELSE IF \/ Includes(normalizedLocation, Str_international)
             \/ Includes(normalizedLocation, Str_worldwide)
             \/ Includes(normalizedLocation, Str_global)
       THEN fees.international
     ELSE fees.national

\* Math.round(subtotal * SERVICE_FEE_PERCENTAGE * 100) / 100
\* subtotal is a number; the fee is an amount of whole hundredths
calculateServiceFee(subtotal) ==
  RoundToCents(Times(subtotal, FromDecimal(SERVICE_FEE_PERCENTAGE, 100)))

\* calculateOrderTotal whose total leaves the service fee out
calculateOrderTotal_NoServiceFee(subtotal, location, currency, discountAmount) ==
  LET serviceFee == calculateServiceFee(subtotal)
      deliveryFee == calculateDeliveryFee(location, currency)
      total == Plus(subtotal, ToNumber(deliveryFee))
  IN [ subtotal |-> ToAmount(subtotal),
       serviceFee |-> serviceFee,
       deliveryFee |-> deliveryFee,
       discountAmount |-> discountAmount,
       total |-> RoundToCents(total),
       currency |-> currency ]

\* subtotal is a number; the fields of the result are amounts
calculateOrderTotal(subtotal, location, currency, discountAmount) ==
  LET serviceFee == calculateServiceFee(subtotal)
      deliveryFee == calculateDeliveryFee(location, currency)
      total == Plus(Plus(subtotal, ToNumber(serviceFee)), ToNumber(deliveryFee))
  IN [ subtotal |-> ToAmount(subtotal),
       serviceFee |-> serviceFee,
       deliveryFee |-> deliveryFee,
       discountAmount |-> discountAmount,
       total |-> RoundToCents(total),
       currency |-> currency ]

(***************************************************************************)
(* Currency conversion (@/lib/currency, not part of the reviewed files;    *)
(* modelled from the specification's section 4.1: multiplication by a      *)
(* fixed rate, identity for the base currency).                            *)
(***************************************************************************)
\* naira per unit of the target currency in the rate table of the model
NairaPer == [USD |-> 1500, GBP |-> 2000]

convertFromNGN(amount, targetCurrency) ==
  IF targetCurrency = "NGN" \/ targetCurrency \notin DOMAIN NairaPer
    THEN amount
    ELSE amount \div NairaPer[targetCurrency]

(***************************************************************************)
(* Promo catalog (src/components/ProductModal.tsx, lines 595-601);         *)
(* discount is the fraction as a whole percentage.                         *)
(***************************************************************************)
PROMO_CODES ==
  [ WELCOME10 |-> [present |-> TRUE, code |-> "WELCOME10", discount |-> 10, isActive |-> TRUE],
    SAVE20 |-> [present |-> TRUE, code |-> "SAVE20", discount |-> 20, isActive |-> TRUE],
    FIRST15 |-> [present |-> TRUE, code |-> "FIRST15", discount |-> 15, isActive |-> TRUE],
    STUDENT |-> [present |-> TRUE, code |-> "STUDENT", discount |-> 12, isActive |-> TRUE],
    HOLIDAY25 |-> [present |-> TRUE, code |-> "HOLIDAY25", discount |-> 25, isActive |-> TRUE] ]

\* validatePromoCode for which the end date itself is too late
validatePromoCode_ExclusiveEnd(code, catalog, now) ==
  IF code \notin DOMAIN catalog THEN [present |-> FALSE]
  ELSE LET promoCode == catalog[code]
       IN IF ~promoCode.isActive THEN [present |-> FALSE]
          ELSE IF "startDate" \in DOMAIN promoCode /\ now < promoCode.startDate
            THEN [present |-> FALSE]
          ELSE IF "endDate" \in DOMAIN promoCode /\ now >= promoCode.endDate
            THEN [present |-> FALSE]
          ELSE IF /\ "maxUses" \in DOMAIN promoCode
                  /\ "currentUses" \in DOMAIN promoCode
                  /\ promoCode.currentUses >= promoCode.maxUses
            THEN [present |-> FALSE]
          ELSE promoCode

\* `catalog` is PROMO_CODES as the call finds it and `now` is new Date(); null is
\* Absent
validatePromoCode(code, catalog, now) ==
  IF code \notin DOMAIN catalog THEN [present |-> FALSE]
  ELSE LET promoCode == catalog[code]
       IN IF ~promoCode.isActive THEN [present |-> FALSE]
          ELSE IF "startDate" \in DOMAIN promoCode /\ now < promoCode.startDate
            THEN [present |-> FALSE]
          ELSE IF "endDate" \in DOMAIN promoCode /\ now > promoCode.endDate
            THEN [present |-> FALSE]
          ELSE IF /\ "maxUses" \in DOMAIN promoCode
                  /\ "currentUses" \in DOMAIN promoCode
                  /\ promoCode.currentUses >= promoCode.maxUses
            THEN [present |-> FALSE]
          ELSE promoCode

(***************************************************************************)
(* The values the checkout screen is opened with.                          *)
(***************************************************************************)
\* a null/undefined object
Absent == [present |-> FALSE]

Item(id, price, quantity, size, color) ==
  [productId |-> id, productName |-> id, price |-> price,
   quantity |-> quantity, size |-> size, color |-> color]

\* the route parameters the screen is opened with: cartData and promoData
Checkouts ==
  { [items |-> << Item("tee", Major(1000), 1, "M", "Red") >>, promo |-> Absent],
    [items |-> << Item("tee", Major(1000), 2, "S", "Red"),
                  Item("cap", Minor(125055), 1, "M", "Blue") >>,
     promo |-> PROMO_CODES["STUDENT"]] }

\* what the user types into the address field
Addresses == {Str_Blank, Str_Lagos, Str_EnuguPadded}

\* carts handleOrder prices: one line of every price and quantity, and the cart
\* of two lines of Checkouts
Prices == {Minor(5), Minor(725), Minor(1005), Minor(36250), Major(1000)}
Carts ==
  { << Item("tee", p, q, "M", "Red") >> : p \in Prices, q \in 1..2 }
    \cup { c.items : c \in Checkouts }
Promos == {Absent} \cup {PROMO_CODES[c] : c \in DOMAIN PROMO_CODES}

\* wallet balances around the total of the first cart delivered to Lagos
\* (1000 + 20 + 3500 = 4520.00)
Balances == {Minor(451999), Major(4520), Major(20000)}


Profile(balance, currency, location) ==
  [present |-> TRUE, wallet_balance |-> balance,
   preferred_currency |-> currency, location |-> location]

Profiles ==
  {Profile(b, "NGN", Str_Lagos) : b \in Balances}
    \cup {Profile(Major(20000), "USD", Str_Lagos), Profile(Major(20000), None, Str_Empty)}

\* the reference token a payment processor reports for its n-th payment
Reference(n) == "ref-" \o ToString(n)

(***************************************************************************)
(* State.                                                                  *)
(***************************************************************************)
VARIABLES
  user,             \* useAuth().user: "none" or the user's id
  profile,          \* useAuth().profile: Absent or the profile row as last fetched
  items,            \* useState items: the line items parsed from cartData
  appliedPromo,     \* useState appliedPromo: Absent or the promo parsed from promoData
  deliveryAddress,  \* useState deliveryAddress
  loading,          \* useState loading
  showPaystack,     \* useState showPaystack
  showPayPal,       \* useState showPayPal
  orderData,        \* useState orderData: Absent or the priced order awaiting payment
  screen,           \* "checkout", or "left" once a success alert replaces the route
  alert,            \* the most recent Alert.alert
  dbBalance,        \* profiles.wallet_balance of the user in the backing store
  orders,           \* the orders table, in insertion order
  transactions,     \* the transactions table, in insertion order
  cart,             \* useCart(): the cart's line items
  walletRun,        \* the handleOrder('wallet') / processWalletPayment run
  onlineRun,        \* the completeOnlinePayment runs, by slot
  attempts,         \* history: handleOrder invocations so far
  lastMethod,       \* history: payment method of the latest handleOrder
  succeeded,        \* history: attempts a success callback arrived for
  cancelled,        \* history: attempts a cancel callback arrived for
  clearedBy,        \* history: attempts whose clearCart succeeded
  stockValidated,   \* history: attempts a stock validation succeeded for
  delivered,        \* history: the success callbacks delivered (closure and reference)
  repeats,          \* history: success callbacks delivered a second time
  walletHistory,    \* history: the balance the screen opened with, and the totals of
                    \* the wallet updates that succeeded
  promoCodes,       \* the object PROMO_CODES of ProductModal.tsx
  libCall,          \* the call of a function of ProductModal.tsx under examination:
                    \* its name, its arguments and what it returned
  productModal,     \* ProductModal: its useState values and its handleAddToCart run
  sessions          \* the checkout screens open on two devices of one account

authVars == <<user, profile>>
formVars == <<items, appliedPromo, deliveryAddress>>
modalVars == <<showPaystack, showPayPal, orderData>>
storeVars == <<dbBalance, orders, transactions>>
callbackVars == <<succeeded, cancelled, delivered, repeats>>
componentVars == <<promoCodes, libCall, productModal, sessions>>
vars == <<user, profile, items, appliedPromo, deliveryAddress, loading,
          showPaystack, showPayPal, orderData, screen, alert, dbBalance, orders,
          transactions, cart, walletRun, onlineRun, attempts, lastMethod,
          succeeded, cancelled, clearedBy, stockValidated, delivered, repeats,
          walletHistory, promoCodes, libCall, productModal, sessions>>

\* Alert.alert titles and messages of checkout.tsx
AlertNone == "none"
AlertAddressRequired == "Delivery Address Required"
AlertAuthRequired == "Authentication Required"
AlertInsufficient == "Insufficient Balance"
AlertOrderFailed == "Error: Failed to process order. Please try again."
AlertFollowUpFailed ==
  "Error: Payment was successful but failed to create order. Please contact support."
AlertOrderPlaced == "Order Placed Successfully"
AlertCancelled == "Payment Cancelled"

IdleRun ==
  [pc |-> "idle", attempt |-> 0, issued |-> << >>, failedAt |-> None, outcome |-> None]

Slots == 1..MaxInFlight

\* no function of ProductModal.tsx is under examination
NoCall == [fn |-> None, args |-> << >>, result |-> None]

\* the devices the account is signed in on
Devices == {"phone", "tablet"}

\* no device has a checkout screen open
NoSessions == [d \in Devices |-> Absent]

\* ProductModal as its useState calls leave it (lines 33-36), no handler running
ProductModalMounted ==
  [selectedSizes |-> << >>, selectedColors |-> << >>, quantity |-> 1, loading |-> FALSE,
   pc |-> "idle", newItems |-> << >>, calls |-> 0]

Init ==
  /\ user \in {None, "u1"}
  /\ profile \in {Absent} \cup Profiles
  /\ user = None => profile = Absent
  /\ \E c \in Checkouts : items = c.items /\ appliedPromo = c.promo
  /\ deliveryAddress = IF profile.present THEN profile.location ELSE Str_Empty
  /\ loading = FALSE
  /\ showPaystack = FALSE
  /\ showPayPal = FALSE
  /\ orderData = Absent
  /\ screen = "checkout"
  /\ alert = AlertNone
  /\ dbBalance = IF profile.present THEN profile.wallet_balance ELSE 0
  /\ orders = << >>
  /\ transactions = << >>
  /\ cart = items
  /\ walletRun = IdleRun
  /\ onlineRun = [i \in Slots |-> IdleRun]
  /\ attempts = 0
  /\ lastMethod = None
  /\ succeeded = {}
  /\ cancelled = {}
  /\ clearedBy = {}
  /\ stockValidated = {}
  /\ delivered = {}
  /\ repeats = 0
  /\ walletHistory = [initial |-> dbBalance, debited |-> 0]
  /\ promoCodes = PROMO_CODES
  /\ libCall = NoCall
  /\ productModal = ProductModalMounted
  /\ sessions = NoSessions

(***************************************************************************)
(* Derived values of the screen (checkout.tsx, lines 50-81).               *)
(***************************************************************************)
userCurrency ==
  IF profile.present /\ profile.preferred_currency # None
    THEN profile.preferred_currency
    ELSE "NGN"

\* items.reduce((sum, item) => sum + (item.price * item.quantity), 0), a number
RECURSIVE getSubtotalInNGN(_)
getSubtotalInNGN(its) ==
  IF its = << >> THEN FromDecimal(0, 1)
  ELSE Plus(getSubtotalInNGN(SubSeq(its, 1, Len(its) - 1)),
            Times(ToNumber(its[Len(its)].price), FromDecimal(its[Len(its)].quantity, 1)))

RECURSIVE getTotalItems(_)
getTotalItems(its) ==
  IF its = << >> THEN 0 ELSE Head(its).quantity + getTotalItems(Tail(its))

\* appliedPromo ? subtotalNGN * appliedPromo.discount : 0
discountNGN(its, promo) ==
  IF promo.present
    THEN Times(getSubtotalInNGN(its), FromDecimal(promo.discount, 100))
    ELSE FromDecimal(0, 1)

\* subtotalNGN - discountNGN
discountedSubtotalNGN(its, promo) == Minus(getSubtotalInNGN(its), discountNGN(its, promo))

\* orderTotalsNGN with the fees taken from the table of the display currency
orderTotalsNGN_DisplayCurrency(its, promo, address) ==
  calculateOrderTotal(discountedSubtotalNGN(its, promo), address, userCurrency, 0)

\* orderTotalsNGN that takes the discount off the discounted subtotal again
orderTotalsNGN_DiscountTwice(its, promo, address) ==
  calculateOrderTotal(Minus(discountedSubtotalNGN(its, promo), discountNGN(its, promo)),
                      address, "NGN", 0)

\* what handleOrder's amounts are computed from: price and quantity of every
\* line, the promo's fraction and the delivery address
PricingInput(its, promo, address) ==
  [ items |-> [i \in 1..Len(its) |->
                 [price |-> its[i].price, quantity |-> its[i].quantity]],
    promo |-> IF promo.present
                THEN [present |-> TRUE, discount |-> promo.discount]
                ELSE Absent,
    address |-> address ]

\* lines 98-102 on one input: calculateOrderTotal of the discounted subtotal,
\* and discountNGN as an amount
PricedInNGN(in) ==
  [ orderTotals |-> calculateOrderTotal(discountedSubtotalNGN(in.items, in.promo),
                                        in.address, "NGN", 0),
    discountAmount |-> ToAmount(discountNGN(in.items, in.promo)) ]

\* the inputs handleOrder is given: every cart with every promo, and the
\* address as typed and as stored on the order
PricingInputs ==
  { PricingInput(its, promo, a) :
      its \in Carts, promo \in Promos, a \in Addresses \cup {Trim(b) : b \in Addresses} }

\* PricedInNGN of these inputs, evaluated once
PricedCheckouts == [in \in PricingInputs |-> PricedInNGN(in)]

\* lines 98-102 for a cart, a promo and an address
handleOrderAmounts(its, promo, address) ==
  PricedCheckouts[PricingInput(its, promo, address)]

\* the totals handleOrder computes in NGN (lines 98-102)
orderTotalsNGN(its, promo, address) ==
  handleOrderAmounts(its, promo, address).orderTotals

\* items.map(item => ({product_id, name, price, quantity, size, color}))
orderItems(its) ==
  [i \in 1..Len(its) |->
     [product_id |-> its[i].productId, name |-> its[i].productName,
      price |-> its[i].price, quantity |-> its[i].quantity,
      size |-> its[i].size, color |-> its[i].color]]

promoCodeOf(promo) == IF promo.present THEN promo.code ELSE None

\* the description of a ledger transaction
description(its, promo) == [items |-> getTotalItems(its), promo |-> promoCodeOf(promo)]

\* the id the order store generates for its n-th row
OrderId(n) == "order-" \o ToString(n)

(***************************************************************************)
(* handleOrder (checkout.tsx, lines 83-159).                               *)
(***************************************************************************)
\* EntryCheck with the address compared untrimmed
EntryCheck_NoTrim(address, u, p) ==
  IF address = << >> THEN AlertAddressRequired
  ELSE IF u = None \/ ~p.present THEN AlertAuthRequired
  ELSE "ok"

\* the entry checks: the alert raised, or "ok"
EntryCheck(address, u, p) ==
  IF Trim(address) = << >> THEN AlertAddressRequired
  ELSE IF u = None \/ ~p.present THEN AlertAuthRequired
  ELSE "ok"

\* InsufficientBalance that rejects an empty wallet only
InsufficientBalance_OnlyEmpty(balance, total) == balance <= 0

\* InsufficientBalance that also rejects a balance equal to the total
InsufficientBalance_RejectsEqual(balance, total) == balance <= total

\* profile.wallet_balance < orderTotals.total
InsufficientBalance(balance, total) == balance < total

\* the modal opened for a non-wallet payment: "paystack", "paypal" or "none"
SelectProcessor(paymentMethod, currency) ==
  IF paymentMethod = "card" /\ currency = "NGN" THEN "paystack"
  ELSE IF paymentMethod = "paypal" \/ currency # "NGN" THEN "paypal"
  ELSE None

\* paymentAmount that hands on the NGN total unconverted
paymentAmount_Unconverted(total, currency) == total

\* userCurrency === 'NGN' ? orderTotals.total : convertFromNGN(orderTotals.total, userCurrency)
paymentAmount(total, currency) ==
  IF currency = "NGN" THEN total ELSE convertFromNGN(total, currency)

\* orderInfo: the totals spread first, then the keys that follow them
orderInfo(paymentMethod, address, attempt) ==
  LET orderTotals == orderTotalsNGN(items, appliedPromo, address)
  IN [ present |-> TRUE,
       subtotal |-> orderTotals.subtotal,
       serviceFee |-> orderTotals.serviceFee,
       deliveryFee |-> orderTotals.deliveryFee,
       total |-> orderTotals.total,
       items |-> orderItems(items),
       delivery_address |-> Trim(address),
       payment_method |-> paymentMethod,
       currency |-> userCurrency,
       original_amount |-> paymentAmount(orderTotals.total, userCurrency),
       appliedPromo |-> appliedPromo,
       discountAmount |-> handleOrderAmounts(items, appliedPromo, address).discountAmount,
       attempt |-> attempt ]

\* the run processWalletPayment starts: the values its closure holds
walletStart(address, attempt) ==
  [ pc |-> "stock", attempt |-> attempt, issued |-> << >>, failedAt |-> None,
    outcome |-> None,
    orderTotals |-> orderTotalsNGN(items, appliedPromo, address),
    discountAmount |-> handleOrderAmounts(items, appliedPromo, address).discountAmount,
    items |-> items, appliedPromo |-> appliedPromo,
    deliveryAddress |-> address,
    wallet_balance |-> profile.wallet_balance,
    orderId |-> None ]

\* BeginOnlinePayment that creates the order record before the payment
BeginOnlinePayment_Eager(paymentMethod, address) ==
  LET processor == SelectProcessor(paymentMethod, userCurrency)
      od == orderInfo(paymentMethod, address, attempts + 1)
  IN /\ orderData' = od
     /\ showPaystack' = (IF processor = "paystack" THEN TRUE ELSE showPaystack)
     /\ showPayPal' = (IF processor = "paypal" THEN TRUE ELSE showPayPal)
     /\ loading' = FALSE
     /\ orders' = Append(orders,
          [ id |-> OrderId(Len(orders) + 1), user_id |-> user, items |-> od.items,
            subtotal |-> od.subtotal, service_fee |-> od.serviceFee,
            delivery_fee |-> od.deliveryFee, total |-> od.total,
            payment_method |-> processor, payment_status |-> "pending",
            order_status |-> "pending", delivery_address |-> od.delivery_address,
            currency |-> od.currency, original_amount |-> od.original_amount,
            promo_code |-> promoCodeOf(od.appliedPromo),
            discount_amount |-> od.discountAmount, attempt |-> od.attempt ])
     /\ UNCHANGED <<alert, walletRun, dbBalance, transactions>>

\* the non-wallet branch (lines 120-152): no call is awaited, so the branch and
\* the finally block run in one step
BeginOnlinePayment(paymentMethod, address) ==
  LET processor == SelectProcessor(paymentMethod, userCurrency)
  IN /\ orderData' = orderInfo(paymentMethod, address, attempts + 1)
     /\ showPaystack' = (IF processor = "paystack" THEN TRUE ELSE showPaystack)
     /\ showPayPal' = (IF processor = "paypal" THEN TRUE ELSE showPayPal)
     /\ loading' = FALSE
     /\ UNCHANGED <<alert, walletRun, storeVars>>

\* the wallet branch (lines 104-119) up to the first awaited call
BeginWalletPayment(address) ==
  LET total == orderTotalsNGN(items, appliedPromo, address).total
  IN /\ IF InsufficientBalance(profile.wallet_balance, total)
          THEN /\ alert' = AlertInsufficient
               /\ loading' = FALSE
               /\ walletRun' = [IdleRun EXCEPT !.attempt = attempts + 1,
                                               !.outcome = "insufficient"]
          ELSE /\ alert' = alert
               /\ loading' = TRUE
               /\ walletRun' = walletStart(address, attempts + 1)
     /\ UNCHANGED <<modalVars, storeVars>>

\* the payment buttons are disabled while loading and covered by an open modal
ButtonsEnabled ==
  screen = "checkout" /\ ~loading /\ ~showPaystack /\ ~showPayPal

\* `address` is deliveryAddress as the handler's closure reads it
handleOrder(paymentMethod, address) ==
  /\ ButtonsEnabled
  /\ attempts + repeats < MaxAttempts
  /\ attempts' = attempts + 1
  /\ lastMethod' = paymentMethod
  /\ LET entry == EntryCheck(address, user, profile)
     IN IF entry # "ok"
          THEN /\ alert' = entry
               /\ UNCHANGED <<loading, modalVars, walletRun, storeVars>>
          ELSE IF paymentMethod = "wallet"
            THEN BeginWalletPayment(address)
            ELSE BeginOnlinePayment(paymentMethod, address)
  /\ UNCHANGED <<authVars, componentVars, walletHistory, items, appliedPromo, screen,
                 cart, onlineRun, callbackVars,
                 clearedBy, stockValidated>>

\* the address TextInput (lines 411-419) and the buttons rendered (lines
\* 470-504).  Only handleOrder reads the field, and a run reads the address its
\* closure captured, so the user's typing is taken together with the press that
\* follows it: the field holds `address` when the button is pressed.
Press(paymentMethod, address) ==
  /\ deliveryAddress' = address
  /\ handleOrder(paymentMethod, address)

PressWallet ==
  \E a \in Addresses \cup {deliveryAddress} : Press("wallet", a)
PressCard ==
  /\ userCurrency = "NGN"
  /\ \E a \in Addresses \cup {deliveryAddress} : Press("card", a)
PressPayPal ==
  /\ userCurrency # "NGN"
  /\ \E a \in Addresses \cup {deliveryAddress} : Press("paypal", a)

(***************************************************************************)
(* Steps of an async run.  Each awaited call is one step; `ok` is whether  *)
(* the call returned without an error.                                     *)
(***************************************************************************)
\* ThrowIfError that ignores the error
ThrowIfError_Ignored(ok, next) == next

\* `if (error) throw error`: the next position after a call, "idle" once thrown
ThrowIfError(ok, next) == IF ok THEN next ELSE "idle"

\* walletAfter with the wallet debited before the order is created
walletAfter_DebitFirst(step) ==
  CASE step = "stock" -> "wallet"
    [] step = "wallet" -> "order"
    [] step = "order" -> "ledger"
    [] step = "ledger" -> "refresh"
    [] step = "refresh" -> "cart"
    [] step = "cart" -> "idle"

\* the awaited calls of processWalletPayment in program order (lines 174-233)
walletAfter(step) ==
  CASE step = "stock" -> "order"
    [] step = "order" -> "wallet"
    [] step = "wallet" -> "ledger"
    [] step = "ledger" -> "refresh"
    [] step = "refresh" -> "cart"
    [] step = "cart" -> "idle"

\* onlineAfter with the cart cleared as soon as the stock is validated
onlineAfter_CartFirst(step) ==
  CASE step = "stock" -> "cart"
    [] step = "cart" -> "order"
    [] step = "order" -> "ledger"
    [] step = "ledger" -> "idle"

\* the awaited calls of completeOnlinePayment in program order (lines 275-327)
onlineAfter(step) ==
  CASE step = "stock" -> "order"
    [] step = "order" -> "ledger"
    [] step = "ledger" -> "cart"
    [] step = "cart" -> "idle"

\* RunAfter whose catch block swallows the error and resumes the run
RunAfter_Resumes(run, step, ok, next, failure) ==
  [run EXCEPT !.pc = next,
              !.issued = Append(@, step),
              !.failedAt = IF ok THEN @ ELSE step,
              !.outcome = IF ~ok THEN failure
                          ELSE IF next = "idle" THEN "success" ELSE @]

\* a run after the call `step` returned: its position, the calls it has issued,
\* and how it ended if it did
RunAfter(run, step, ok, next, failure) ==
  LET pc == ThrowIfError(ok, next)
  IN [run EXCEPT !.pc = pc,
                 !.issued = Append(@, step),
                 !.failedAt = IF ok THEN @ ELSE step,
                 !.outcome = IF ~ok THEN failure
                             ELSE IF pc = "idle" THEN "success" ELSE @]

\* a run that has returned keeps no closure: what is left is its record
Returned(run) ==
  IF run.pc = "idle"
    THEN [pc |-> "idle", attempt |-> run.attempt, issued |-> run.issued,
          failedAt |-> run.failedAt, outcome |-> run.outcome]
    ELSE run

(***************************************************************************)
(* processWalletPayment (checkout.tsx, lines 161-246) and the catch and    *)
(* finally blocks of handleOrder it returns or throws into (153-158).      *)
(***************************************************************************)
\* the message of the error validate_stock_availability answers with: it names
\* the line item that is not available
StockValidationMessage == "Insufficient stock for tee"

\* the error a failed call makes the run throw: the stock validator's message
\* wrapped in a new Error (lines 178-180 and 279-281), the store's own error
\* object otherwise (lines 203, 216, 230, 305, 325), Error('Order data not
\* found') for a missing orderData (line 272)
Thrown(step) ==
  IF step = "stock"
    THEN [message |-> "Stock validation failed: " \o StockValidationMessage]
  ELSE IF step = "orderData" THEN [message |-> "Order data not found"]
  ELSE [message |-> step \o " call failed"]

\* the catch block of handleOrder (lines 153-155): the error is logged to the
\* console and a fixed alert is raised
handleOrderCatch(error) == AlertOrderFailed

\* the catch block of completeOnlinePayment (lines 336-339): the error is
\* logged to the console and a fixed alert is raised
completeOnlinePaymentCatch(error) == AlertFollowUpFailed

\* what the screen shows once the run has stepped to `run`
WalletSettle(run) ==
  /\ walletRun' = Returned(run)
  /\ loading' = (IF run.pc = "idle" THEN FALSE ELSE loading)
  /\ alert' = (IF run.pc # "idle" THEN alert
               ELSE IF run.outcome = "success" THEN AlertOrderPlaced
               ELSE handleOrderCatch(Thrown(run.failedAt)))
  /\ screen' = (IF run.pc = "idle" /\ run.outcome = "success" THEN "left" ELSE screen)

\* supabase.rpc('validate_stock_availability') (lines 174-180)
WalletValidateStock ==
  /\ walletRun.pc = "stock"
  /\ \E ok \in BOOLEAN :
       /\ stockValidated' = (IF ok THEN stockValidated \cup {walletRun.attempt}
                             ELSE stockValidated)
       /\ WalletSettle(RunAfter(walletRun, "stock", ok, walletAfter("stock"), "failed"))
  /\ UNCHANGED <<authVars, formVars, componentVars, walletHistory,
                 modalVars, storeVars, cart, onlineRun,
                 attempts, lastMethod, callbackVars, clearedBy>>

\* the row processWalletPayment inserts into orders (lines 185-199)
walletOrder(run, id) ==
  [ id |-> id,
    user_id |-> user,
    items |-> orderItems(run.items),
    subtotal |-> run.orderTotals.subtotal,
    service_fee |-> run.orderTotals.serviceFee,
    delivery_fee |-> run.orderTotals.deliveryFee,
    total |-> run.orderTotals.total,
    payment_method |-> "wallet",
    payment_status |-> "paid",
    order_status |-> "pending",
    delivery_address |-> Trim(run.deliveryAddress),
    currency |-> "NGN",
    promo_code |-> promoCodeOf(run.appliedPromo),
    discount_amount |-> run.discountAmount,
    attempt |-> run.attempt ]

\* supabase.from('orders').insert(...).select().single() (lines 183-203)
WalletInsertOrder ==
  /\ walletRun.pc = "order"
  /\ \E ok \in BOOLEAN :
       LET id == OrderId(Len(orders) + 1)
           run == RunAfter(walletRun, "order", ok, walletAfter("order"), "failed")
       IN /\ orders' = (IF ok THEN Append(orders, walletOrder(walletRun, id)) ELSE orders)
          /\ WalletSettle([run EXCEPT !.orderId = IF ok THEN id ELSE @])
  /\ UNCHANGED <<authVars, formVars, componentVars, walletHistory,
                 modalVars, dbBalance, transactions, cart,
                 onlineRun, attempts, lastMethod, callbackVars, clearedBy, stockValidated>>

\* supabase.from('profiles').update({wallet_balance: ...}) (lines 209-216)
WalletUpdateBalance ==
  /\ walletRun.pc = "wallet"
  /\ \E ok \in BOOLEAN :
       /\ dbBalance' = (IF ok THEN walletRun.wallet_balance - walletRun.orderTotals.total
                        ELSE dbBalance)
       /\ walletHistory' = (IF ok THEN [walletHistory EXCEPT
                                         !.debited = @ + walletRun.orderTotals.total]
                            ELSE walletHistory)
       /\ WalletSettle(RunAfter(walletRun, "wallet", ok, walletAfter("wallet"), "failed"))
  /\ UNCHANGED <<authVars, formVars, componentVars,
                 modalVars, orders, transactions, cart,
                 onlineRun, attempts, lastMethod, callbackVars, clearedBy, stockValidated>>

\* walletTransaction that refers to the user instead of the order created
walletTransaction_UserReference(run) ==
  [ user_id |-> user,
    type |-> "debit",
    amount |-> run.orderTotals.total,
    description |-> description(run.items, run.appliedPromo),
    reference |-> user,
    status |-> "completed",
    attempt |-> run.attempt ]

\* the row processWalletPayment inserts into transactions (lines 221-228)
walletTransaction(run) ==
  [ user_id |-> user,
    type |-> "debit",
    amount |-> run.orderTotals.total,
    description |-> description(run.items, run.appliedPromo),
    reference |-> run.orderId,
    status |-> "completed",
    attempt |-> run.attempt ]

\* WalletInsertTransaction that gives the debit back when the insert fails
WalletInsertTransaction_Compensates ==
  /\ walletRun.pc = "ledger"
  /\ \E ok \in BOOLEAN :
       /\ transactions' = (IF ok THEN Append(transactions, walletTransaction(walletRun))
                           ELSE transactions)
       /\ dbBalance' = (IF ok THEN dbBalance ELSE walletRun.wallet_balance)
       /\ WalletSettle(RunAfter(walletRun, "ledger", ok, walletAfter("ledger"), "failed"))
  /\ UNCHANGED <<authVars, formVars, componentVars, walletHistory,
                 modalVars, orders, cart,
                 onlineRun, attempts, lastMethod, callbackVars, clearedBy, stockValidated>>

\* supabase.from('transactions').insert(...) (lines 219-230)
WalletInsertTransaction ==
  /\ walletRun.pc = "ledger"
  /\ \E ok \in BOOLEAN :
       /\ transactions' = (IF ok THEN Append(transactions, walletTransaction(walletRun))
                           ELSE transactions)
       /\ WalletSettle(RunAfter(walletRun, "ledger", ok, walletAfter("ledger"), "failed"))
  /\ UNCHANGED <<authVars, formVars, componentVars, walletHistory,
                 modalVars, dbBalance, orders, cart,
                 onlineRun, attempts, lastMethod, callbackVars, clearedBy, stockValidated>>

\* await refreshProfile() (line 232): the profile row is fetched again
WalletRefreshProfile ==
  /\ walletRun.pc = "refresh"
  /\ profile' = [profile EXCEPT !.wallet_balance = dbBalance]
  /\ WalletSettle(RunAfter(walletRun, "refresh", TRUE, walletAfter("refresh"), "failed"))
  /\ UNCHANGED <<user, formVars, componentVars, walletHistory,
                 modalVars, storeVars, cart, onlineRun,
                 attempts, lastMethod, callbackVars, clearedBy, stockValidated>>

\* await clearCart() (line 233), then the success alert (lines 235-241)
WalletClearCart ==
  /\ walletRun.pc = "cart"
  /\ \E ok \in BOOLEAN :
       /\ cart' = (IF ok THEN << >> ELSE cart)
       /\ clearedBy' = (IF ok THEN clearedBy \cup {walletRun.attempt} ELSE clearedBy)
       /\ WalletSettle(RunAfter(walletRun, "cart", ok, walletAfter("cart"), "failed"))
  /\ UNCHANGED <<authVars, formVars, componentVars, walletHistory,
                 modalVars, storeVars, onlineRun,
                 attempts, lastMethod, callbackVars, stockValidated>>

(***************************************************************************)
(* The payment processors' callbacks (checkout.tsx, lines 248-268) and     *)
(* completeOnlinePayment (lines 270-340).                                  *)
(***************************************************************************)
HasFreeSlot == \E i \in Slots : onlineRun[i].pc = "idle"
FreeSlot == CHOOSE i \in Slots : onlineRun[i].pc = "idle" /\ \A j \in 1..(i - 1) : onlineRun[j].pc # "idle"

\* completeOnlinePayment up to its first awaited call: `od` is the orderData of
\* the render the callback was created in
onlineStart(od, reference, provider) ==
  IF od.present
    THEN [ pc |-> "stock", attempt |-> od.attempt, issued |-> << >>,
           failedAt |-> None, outcome |-> None, orderData |-> od,
           reference |-> reference, provider |-> provider, orderId |-> None ]
    ELSE [IdleRun EXCEPT !.failedAt = "orderData", !.outcome = "followup"]

\* handleSuccess that ignores a reference it has completed a payment for before
handleSuccess_Deduplicated(provider, od, reference) ==
  /\ showPaystack' = (IF provider = "paystack" THEN FALSE ELSE showPaystack)
  /\ showPayPal' = (IF provider = "paypal" THEN FALSE ELSE showPayPal)
  /\ onlineRun' = (IF \E d \in delivered : d.reference = reference
                     THEN onlineRun
                     ELSE [onlineRun EXCEPT ![FreeSlot] = onlineStart(od, reference, provider)])
  /\ alert' = (IF od.present THEN alert
               ELSE completeOnlinePaymentCatch(Thrown("orderData")))
  /\ succeeded' = (IF od.present THEN succeeded \cup {od.attempt} ELSE succeeded)
  /\ UNCHANGED <<authVars, formVars, componentVars, walletHistory,
                 loading, orderData, screen, storeVars, cart,
                 walletRun, attempts, lastMethod, cancelled, clearedBy, stockValidated>>

\* handlePaystackSuccess / handlePayPalSuccess
handleSuccess(provider, od, reference) ==
  /\ showPaystack' = (IF provider = "paystack" THEN FALSE ELSE showPaystack)
  /\ showPayPal' = (IF provider = "paypal" THEN FALSE ELSE showPayPal)
  /\ onlineRun' = [onlineRun EXCEPT ![FreeSlot] = onlineStart(od, reference, provider)]
  /\ alert' = (IF od.present THEN alert
               ELSE completeOnlinePaymentCatch(Thrown("orderData")))
  /\ succeeded' = (IF od.present THEN succeeded \cup {od.attempt} ELSE succeeded)
  /\ UNCHANGED <<authVars, formVars, componentVars, walletHistory,
                 loading, orderData, screen, storeVars, cart,
                 walletRun, attempts, lastMethod, cancelled, clearedBy, stockValidated>>

\* PaystackPayment is mounted when showPaystack && orderData && user (line 524)
PaystackSuccess ==
  /\ screen = "checkout" /\ showPaystack /\ orderData.present /\ user # None
  /\ HasFreeSlot
  /\ LET reference == Reference(Cardinality(delivered) + 1)
     IN
       /\ handleSuccess("paystack", orderData, reference)
       /\ delivered' = delivered \cup
            {[provider |-> "paystack", reference |-> reference, orderData |-> orderData]}
  /\ UNCHANGED repeats

\* PayPalPayment is mounted when showPayPal && orderData && user (line 552)
PayPalSuccess ==
  /\ screen = "checkout" /\ showPayPal /\ orderData.present /\ user # None
  /\ HasFreeSlot
  /\ LET reference == Reference(Cardinality(delivered) + 1)
     IN
       /\ handleSuccess("paypal", orderData, reference)
       /\ delivered' = delivered \cup
            {[provider |-> "paypal", reference |-> reference, orderData |-> orderData]}
  /\ UNCHANGED repeats

\* a processor widget delivers a success callback it has delivered before: the
\* same handler runs again with the same closure and reference
RepeatSuccess ==
  /\ screen = "checkout"
  /\ attempts + repeats < MaxAttempts
  /\ HasFreeSlot
  /\ \E d \in delivered : handleSuccess(d.provider, d.orderData, d.reference)
  /\ repeats' = repeats + 1
  /\ UNCHANGED delivered

\* handleCancel that leaves the modal open
handleCancel_KeepsModal(provider) ==
  /\ loading' = FALSE
  /\ alert' = AlertCancelled
  /\ cancelled' = (IF orderData.present THEN cancelled \cup {orderData.attempt}
                   ELSE cancelled)
  /\ UNCHANGED <<authVars, formVars, componentVars, walletHistory,
                 modalVars, screen, storeVars, cart, walletRun,
                 onlineRun, attempts, lastMethod, succeeded, clearedBy, stockValidated,
                 delivered, repeats>>

\* handlePaystackCancel / handlePayPalCancel
handleCancel(provider) ==
  /\ showPaystack' = (IF provider = "paystack" THEN FALSE ELSE showPaystack)
  /\ showPayPal' = (IF provider = "paypal" THEN FALSE ELSE showPayPal)
  /\ loading' = FALSE
  /\ alert' = AlertCancelled
  /\ cancelled' = (IF orderData.present THEN cancelled \cup {orderData.attempt}
                   ELSE cancelled)
  /\ UNCHANGED <<authVars, formVars, componentVars, walletHistory,
                 orderData, screen, storeVars, cart, walletRun,
                 onlineRun, attempts, lastMethod, succeeded, clearedBy, stockValidated, delivered,
                 repeats>>

\* the modal's close button, onRequestClose and the widget's onCancel
PaystackCancel == screen = "checkout" /\ showPaystack /\ handleCancel("paystack")
PayPalCancel == screen = "checkout" /\ showPayPal /\ handleCancel("paypal")

\* what the screen shows once the run in slot i has stepped to `run`; the catch
\* block of completeOnlinePayment raises the alert of lines 337-338
OnlineSettle(i, run) ==
  /\ onlineRun' = [onlineRun EXCEPT ![i] = Returned(run)]
  /\ alert' = (IF run.pc # "idle" THEN alert
               ELSE IF run.outcome = "success" THEN AlertOrderPlaced
               ELSE completeOnlinePaymentCatch(Thrown(run.failedAt)))
  /\ screen' = (IF run.pc = "idle" /\ run.outcome = "success" THEN "left" ELSE screen)

\* supabase.rpc('validate_stock_availability') (lines 275-281)
OnlineValidateStock(i) ==
  /\ onlineRun[i].pc = "stock"
  /\ \E ok \in BOOLEAN :
       /\ stockValidated' = (IF ok THEN stockValidated \cup {onlineRun[i].attempt}
                             ELSE stockValidated)
       /\ OnlineSettle(i, RunAfter(onlineRun[i], "stock", ok, onlineAfter("stock"), "followup"))
  /\ UNCHANGED <<authVars, formVars, componentVars, walletHistory,
                 loading, modalVars, storeVars, cart, walletRun,
                 attempts, lastMethod, callbackVars, clearedBy>>

\* the row completeOnlinePayment inserts into orders (lines 286-301)
onlineOrder(run, id) ==
  [ id |-> id,
    user_id |-> user,
    items |-> run.orderData.items,
    subtotal |-> run.orderData.subtotal,
    service_fee |-> run.orderData.serviceFee,
    delivery_fee |-> run.orderData.deliveryFee,
    total |-> run.orderData.total,
    payment_method |-> run.provider,
    payment_status |-> "paid",
    order_status |-> "pending",
    delivery_address |-> run.orderData.delivery_address,
    currency |-> run.orderData.currency,
    original_amount |-> run.orderData.original_amount,
    promo_code |-> promoCodeOf(run.orderData.appliedPromo),
    discount_amount |-> run.orderData.discountAmount,
    attempt |-> run.attempt ]

\* supabase.from('orders').insert(...).select().single() (lines 284-305)
OnlineInsertOrder(i) ==
  /\ onlineRun[i].pc = "order"
  /\ \E ok \in BOOLEAN :
       LET id == OrderId(Len(orders) + 1)
           run == RunAfter(onlineRun[i], "order", ok, onlineAfter("order"), "followup")
       IN /\ orders' = (IF ok THEN Append(orders, onlineOrder(onlineRun[i], id)) ELSE orders)
          /\ OnlineSettle(i, [run EXCEPT !.orderId = IF ok THEN id ELSE @])
  /\ UNCHANGED <<authVars, formVars, componentVars, walletHistory,
                 loading, modalVars, dbBalance, transactions, cart,
                 walletRun, attempts, lastMethod, callbackVars, clearedBy, stockValidated>>

\* the row completeOnlinePayment inserts into transactions (lines 313-323)
onlineTransaction(run) ==
  [ user_id |-> user,
    type |-> "debit",
    amount |-> run.orderData.total,
    currency |-> run.orderData.currency,
    original_amount |-> run.orderData.original_amount,
    description |-> description(items, run.orderData.appliedPromo),
    reference |-> run.reference,
    status |-> "completed",
    payment_provider |-> run.provider,
    attempt |-> run.attempt ]

\* OnlineInsertTransaction that also debits the wallet by the order total
OnlineInsertTransaction_Debits(i) ==
  /\ onlineRun[i].pc = "ledger"
  /\ \E ok \in BOOLEAN :
       /\ transactions' = (IF ok THEN Append(transactions, onlineTransaction(onlineRun[i]))
                           ELSE transactions)
       /\ dbBalance' = (IF ok THEN dbBalance - onlineRun[i].orderData.total ELSE dbBalance)
       /\ OnlineSettle(i, RunAfter(onlineRun[i], "ledger", ok, onlineAfter("ledger"), "followup"))
  /\ UNCHANGED <<authVars, formVars, componentVars, walletHistory,
                 loading, modalVars, orders, cart,
                 walletRun, attempts, lastMethod, callbackVars, clearedBy, stockValidated>>

\* supabase.from('transactions').insert(...) (lines 311-325)
OnlineInsertTransaction(i) ==
  /\ onlineRun[i].pc = "ledger"
  /\ \E ok \in BOOLEAN :
       /\ transactions' = (IF ok THEN Append(transactions, onlineTransaction(onlineRun[i]))
                           ELSE transactions)
       /\ OnlineSettle(i, RunAfter(onlineRun[i], "ledger", ok, onlineAfter("ledger"), "followup"))
  /\ UNCHANGED <<authVars, formVars, componentVars, walletHistory,
                 loading, modalVars, dbBalance, orders, cart,
                 walletRun, attempts, lastMethod, callbackVars, clearedBy, stockValidated>>

\* await clearCart() (line 327), then the success alert (lines 329-335)
OnlineClearCart(i) ==
  /\ onlineRun[i].pc = "cart"
  /\ \E ok \in BOOLEAN :
       /\ cart' = (IF ok THEN << >> ELSE cart)
       /\ clearedBy' = (IF ok THEN clearedBy \cup {onlineRun[i].attempt} ELSE clearedBy)
       /\ OnlineSettle(i, RunAfter(onlineRun[i], "cart", ok, onlineAfter("cart"), "followup"))
  /\ UNCHANGED <<authVars, formVars, componentVars, walletHistory,
                 loading, modalVars, storeVars, walletRun,
                 attempts, lastMethod, callbackVars, stockValidated>>

(***************************************************************************)
(* The specification.                                                      *)
(***************************************************************************)
Next ==
  \/ PressWallet
  \/ PressCard
  \/ PressPayPal
  \/ WalletValidateStock
  \/ WalletInsertOrder
  \/ WalletUpdateBalance
  \/ WalletInsertTransaction
  \/ WalletRefreshProfile
  \/ WalletClearCart
  \/ PaystackSuccess
  \/ PayPalSuccess
  \/ RepeatSuccess
  \/ PaystackCancel
  \/ PayPalCancel
  \/ \E i \in Slots : OnlineValidateStock(i)
  \/ \E i \in Slots : OnlineInsertOrder(i)
  \/ \E i \in Slots : OnlineInsertTransaction(i)
  \/ \E i \in Slots : OnlineClearCart(i)

Spec == Init /\ [][Next]_vars

(***************************************************************************)
(* The exported functions of ProductModal.tsx (lines 476-630) and the      *)
(* pricing lines of handleOrder (checkout.tsx, 96-102) examined on their   *)
(* own: a call applies one of them to arguments drawn from the sets below  *)
(* and records what it returned; the checkout screen is not involved.      *)
(***************************************************************************)
\* subtotals of whole hundredths up to this many hundredths are all examined
MaxHundredths == 800
\* the days new Date() may fall on
MaxDay == 4

Str_LAGOS_ISLAND == <<"L", "A", "G", "O", "S", " ", "I", "S", "L", "A", "N", "D">>
Str_IkejaLagosPadded == <<" ", " ", "I", "k", "e", "j", "a", ",", " ", "L", "a", "g", "o", "s", " ">>
Str_Abuja == <<"A", "b", "u", "j", "a">>
Str_PortHarcourt == <<"1", "2", " ", "A", "b", "a", " ", "R", "o", "a", "d", ",", " ", "P", "O", "R", "T", " ", "H", "A", "R", "C", "O", "U", "R", "T">>
Str_Nigeria == <<"S", "o", "m", "e", "w", "h", "e", "r", "e", " ", "i", "n", " ", "N", "i", "g", "e", "r", "i", "a">>
Str_Accra == <<"A", "c", "c", "r", "a", ",", " ", "G", "h", "a", "n", "a">>
Str_London == <<"L", "o", "n", "d", "o", "n">>
Str_International == <<"I", "n", "t", "e", "r", "n", "a", "t", "i", "o", "n", "a", "l">>
Str_WorldwideShipping == <<"W", "O", "R", "L", "D", "W", "I", "D", "E", " ", "s", "h", "i", "p", "p", "i", "n", "g">>
Str_GlobalHub == <<"D", "u", "b", "a", "i", " ", "g", "l", "o", "b", "a", "l", " ", "h", "u", "b">>

Locations ==
  { Str_Empty, Str_Blank, Str_Lagos, Str_LAGOS_ISLAND, Str_IkejaLagosPadded,
    Str_EnuguPadded, Str_Abuja, Str_PortHarcourt, Str_Nigeria, Str_Accra, Str_London,
    Str_International, Str_WorldwideShipping, Str_GlobalHub }

\* three currencies of DELIVERY_FEES_BY_CURRENCY and one it does not list
Currencies == {"NGN", "USD", "JPY", "XAF"}

\* subtotals of whole hundredths
Subtotals ==
  {Minor(n) : n \in 0..MaxHundredths}
    \cup {Minor(5125), Minor(10975), Major(1000), Minor(286048), Major(20000)}

\* subtotals calculateOrderTotal is applied to: hundredths, and discounted
\* subtotals of four decimal places (10.05 less 10% is 9.045)
OrderSubtotals ==
  {Minor(n) : n \in {m \in 0..MaxHundredths : m % 25 = 0}}
    \cup {Major(1000), Minor(286048), Major(20000), 49, 90450, 28604840}

\* a catalog whose entries use the optional fields of PromoCode (lines 583-592):
\* an inactive code, a validity window, an end date alone, a cap reached, a cap not
\* reached, and a cap without a usage count
PromoCodesWithOptions ==
  [ WELCOME10 |-> [present |-> TRUE, code |-> "WELCOME10", discount |-> 10,
                   isActive |-> TRUE, startDate |-> 2, endDate |-> 3],
    SAVE20 |-> [present |-> TRUE, code |-> "SAVE20", discount |-> 20, isActive |-> FALSE],
    FIRST15 |-> [present |-> TRUE, code |-> "FIRST15", discount |-> 15, isActive |-> TRUE,
                 maxUses |-> 3, currentUses |-> 3],
    STUDENT |-> [present |-> TRUE, code |-> "STUDENT", discount |-> 12, isActive |-> TRUE,
                 maxUses |-> 3, currentUses |-> 2, endDate |-> 2],
    HOLIDAY25 |-> [present |-> TRUE, code |-> "HOLIDAY25", discount |-> 25,
                   isActive |-> TRUE, maxUses |-> 3] ]

Catalogs == {PROMO_CODES, PromoCodesWithOptions}

\* the codes a user may enter
Codes == {"WELCOME10", "SAVE20", "FIRST15", "STUDENT", "HOLIDAY25", "student", "FREE100"}

checkoutVars ==
  <<user, profile, items, appliedPromo, deliveryAddress, loading, showPaystack,
    showPayPal, orderData, screen, alert, dbBalance, orders, transactions, cart,
    walletRun, onlineRun, attempts, lastMethod, succeeded, cancelled, clearedBy,
    stockValidated, delivered, repeats, walletHistory, sessions>>

\* nobody is signed in and no checkout screen is open
NoCheckout ==
  /\ user = None
  /\ profile = Absent
  /\ items = << >>
  /\ appliedPromo = Absent
  /\ deliveryAddress = Str_Empty
  /\ loading = FALSE
  /\ showPaystack = FALSE
  /\ showPayPal = FALSE
  /\ orderData = Absent
  /\ screen = "checkout"
  /\ alert = AlertNone
  /\ dbBalance = 0
  /\ orders = << >>
  /\ transactions = << >>
  /\ walletRun = IdleRun
  /\ onlineRun = [i \in Slots |-> IdleRun]
  /\ attempts = 0
  /\ lastMethod = None
  /\ succeeded = {}
  /\ cancelled = {}
  /\ clearedBy = {}
  /\ stockValidated = {}
  /\ delivered = {}
  /\ repeats = 0
  /\ walletHistory = [initial |-> 0, debited |-> 0]
  /\ sessions = NoSessions

LibraryInit ==
  /\ NoCheckout
  /\ cart = << >>
  /\ promoCodes \in Catalogs
  /\ libCall = NoCall
  /\ productModal = ProductModalMounted

\* the call fn(args) that returned result
Called(fn, args, result) == [fn |-> fn, args |-> args, result |-> result]

CallCalculateServiceFee ==
  /\ libCall = NoCall
  /\ \E subtotal \in Subtotals :
       libCall' = Called("calculateServiceFee", <<subtotal>>,
                         calculateServiceFee(ToNumber(subtotal)))
  /\ UNCHANGED <<checkoutVars, promoCodes, productModal>>

CallCalculateDeliveryFee ==
  /\ libCall = NoCall
  /\ \E location \in Locations, currency \in Currencies :
       libCall' = Called("calculateDeliveryFee", <<location, currency>>,
                         calculateDeliveryFee(location, currency))
  /\ UNCHANGED <<checkoutVars, promoCodes, productModal>>

CallCalculateOrderTotal ==
  /\ libCall = NoCall
  /\ \E subtotal \in OrderSubtotals,
        location \in {Str_Empty, Str_Lagos, Str_Abuja, Str_London},
        currency \in Currencies :
       libCall' = Called("calculateOrderTotal", <<subtotal, location, currency>>,
                         calculateOrderTotal(ToNumber(subtotal), location, currency, 0))
  /\ UNCHANGED <<checkoutVars, promoCodes, productModal>>

\* the function assigns nothing: PROMO_CODES is as it was
CallValidatePromoCode ==
  /\ libCall = NoCall
  /\ \E code \in Codes, now \in 1..MaxDay :
       libCall' = Called("validatePromoCode", <<code, now>>,
                         validatePromoCode(code, promoCodes, now))
  /\ promoCodes' = promoCodes
  /\ UNCHANGED <<checkoutVars, productModal>>

\* lines 96-102 of handleOrder and the discountAmount of line 142
PriceOrder ==
  /\ libCall = NoCall
  /\ \E its \in Carts, promo \in Promos, address \in {Str_Lagos, Str_EnuguPadded} :
       libCall' = Called("handleOrder", <<its, promo, address>>,
                         [orderTotals |-> orderTotalsNGN(its, promo, address),
                          discountAmount |-> ToAmount(discountNGN(its, promo))])
  /\ UNCHANGED <<checkoutVars, promoCodes, productModal>>

\* the result is taken and the next call may be made
Return ==
  /\ libCall # NoCall
  /\ libCall' = NoCall
  /\ UNCHANGED <<checkoutVars, promoCodes, productModal>>

LibraryNext ==
  \/ CallCalculateServiceFee
  \/ CallCalculateDeliveryFee
  \/ CallCalculateOrderTotal
  \/ CallValidatePromoCode
  \/ PriceOrder
  \/ Return

LibrarySpec == LibraryInit /\ [][LibraryNext]_vars

(***************************************************************************)
(* ProductModal (src/components/ProductModal.tsx, lines 29-114 and the     *)
(* controls of lines 184-278).  handleAddToCart awaits addToCart of        *)
(* @/contexts/CartContext, which is not part of the reviewed files: it is  *)
(* modelled from the specification (the items handed over are appended to  *)
(* the cart, lines are never merged) and may fail.  The button that calls  *)
(* handleAddToCart is rendered disabled while the selection is incomplete  *)
(* (line 278); the handler is examined in every state of the component, as *)
(* its own check of line 68 provides for.                                  *)
(***************************************************************************)
\* the quantity the + button is pressed up to
MaxQuantity == 2
\* invocations of handleAddToCart on one modal
MaxAdds == 1

\* the product the modal is opened for
Product ==
  [id |-> "tee", name |-> "tee", image_url |-> "tee.png", price |-> Major(1000),
   sizes |-> <<"S", "M">>, colors |-> <<"Red", "Blue">>]

AlertSelectionRequired == "Selection Required"
AlertAddedToCart == "Added to Cart"
AlertAddFailed == "Error: Failed to add items to cart. Please try again."

\* prev.includes(x) ? prev.filter(y => y !== x) : [...prev, x]
Toggle(prev, x) ==
  LET Other(y) == y # x
  IN IF \E i \in 1..Len(prev) : prev[i] = x THEN SelectSeq(prev, Other) ELSE Append(prev, x)

\* SelectionMissing that asks for a size or a color
SelectionMissing_Both(sizes, colors) == Len(sizes) = 0 /\ Len(colors) = 0

\* selectedSizes.length === 0 || selectedColors.length === 0
SelectionMissing(sizes, colors) == Len(sizes) = 0 \/ Len(colors) = 0

\* newItems that shares the quantity out among the combinations
newItems_SplitQuantity(sizes, colors, quantity) ==
  [k \in 1..(Len(sizes) * Len(colors)) |->
     [productId |-> Product.id, productName |-> Product.name,
      productImage |-> Product.image_url, price |-> Product.price,
      size |-> sizes[((k - 1) \div Len(colors)) + 1],
      color |-> colors[((k - 1) % Len(colors)) + 1],
      quantity |-> quantity \div (Len(sizes) * Len(colors))]]

\* the items the nested forEach pushes (lines 77-90), sizes outermost
newItems(sizes, colors, quantity) ==
  [k \in 1..(Len(sizes) * Len(colors)) |->
     [productId |-> Product.id, productName |-> Product.name,
      productImage |-> Product.image_url, price |-> Product.price,
      size |-> sizes[((k - 1) \div Len(colors)) + 1],
      color |-> colors[((k - 1) % Len(colors)) + 1],
      quantity |-> quantity]]

\* resetModal (lines 40-44)
resetModal(modal) ==
  [modal EXCEPT !.selectedSizes = << >>, !.selectedColors = << >>, !.quantity = 1]

modalFrame ==
  <<user, profile, items, appliedPromo, deliveryAddress, loading, showPaystack,
    showPayPal, orderData, screen, dbBalance, orders, transactions, walletRun,
    onlineRun, attempts, lastMethod, succeeded, cancelled, clearedBy, stockValidated,
    delivered, repeats, walletHistory, promoCodes, libCall, sessions>>

\* the modal opens on an empty cart or on one that holds an earlier addition
ModalInit ==
  /\ NoCheckout
  /\ cart \in {<< >>, newItems(<<"S">>, <<"Red">>, 1)}
  /\ promoCodes = PROMO_CODES
  /\ libCall = NoCall
  /\ productModal = ProductModalMounted

toggleSize ==
  /\ \E i \in 1..Len(Product.sizes) :
       productModal' = [productModal EXCEPT !.selectedSizes = Toggle(@, Product.sizes[i])]
  /\ UNCHANGED <<modalFrame, alert, cart>>

toggleColor ==
  /\ \E i \in 1..Len(Product.colors) :
       productModal' = [productModal EXCEPT !.selectedColors = Toggle(@, Product.colors[i])]
  /\ UNCHANGED <<modalFrame, alert, cart>>

\* setQuantity(Math.max(1, quantity - 1)) (line 239)
DecreaseQuantity ==
  /\ productModal' = [productModal EXCEPT !.quantity = IF @ - 1 > 1 THEN @ - 1 ELSE 1]
  /\ UNCHANGED <<modalFrame, alert, cart>>

\* setQuantity(quantity + 1) (line 246)
IncreaseQuantity ==
  /\ productModal.quantity < MaxQuantity
  /\ productModal' = [productModal EXCEPT !.quantity = @ + 1]
  /\ UNCHANGED <<modalFrame, alert, cart>>

\* handleClose (lines 46-49); onClose belongs to the parent
handleClose ==
  /\ productModal' = resetModal(productModal)
  /\ UNCHANGED <<modalFrame, alert, cart>>

\* handleAddToCart up to its await (lines 67-92)
handleAddToCart ==
  /\ productModal.pc = "idle"
  /\ productModal.calls < MaxAdds
  /\ IF SelectionMissing(productModal.selectedSizes, productModal.selectedColors)
       THEN /\ alert' = AlertSelectionRequired
            /\ productModal' = [productModal EXCEPT !.calls = @ + 1]
       ELSE /\ alert' = alert
            /\ productModal' =
                 [productModal EXCEPT
                    !.loading = TRUE,
                    !.pc = "addToCart",
                    !.newItems = newItems(productModal.selectedSizes,
                                          productModal.selectedColors,
                                          productModal.quantity),
                    !.calls = @ + 1]
  /\ UNCHANGED <<modalFrame, cart>>

\* addToCart settles and handleAddToCart runs to its end (lines 92-113)
AddToCartReturns ==
  /\ productModal.pc = "addToCart"
  /\ \E ok \in BOOLEAN :
       IF ok
         THEN /\ cart' = cart \o productModal.newItems
              /\ alert' = AlertAddedToCart
              /\ productModal' = [resetModal(productModal) EXCEPT
                                    !.loading = FALSE, !.pc = "idle", !.newItems = << >>]
         ELSE /\ cart' = cart
              /\ alert' = AlertAddFailed
              /\ productModal' = [productModal EXCEPT
                                    !.loading = FALSE, !.pc = "idle", !.newItems = << >>]
  /\ UNCHANGED modalFrame

ModalNext ==
  \/ toggleSize
  \/ toggleColor
  \/ DecreaseQuantity
  \/ IncreaseQuantity
  \/ handleClose
  \/ handleAddToCart
  \/ AddToCartReturns

ModalSpec == ModalInit /\ [][ModalNext]_vars

(***************************************************************************)
(* Two checkout screens of one account.  The user is signed in on two      *)
(* devices; each device runs its own CheckoutScreen (checkout.tsx) with    *)
(* its own useAuth().profile, its own form, and its own handleOrder        *)
(* ('wallet') / processWalletPayment run, against the one backing store.   *)
(* Each awaited call of a run is one step, so the steps of the two runs    *)
(* interleave in every order.                                              *)
(***************************************************************************)
\* handleOrder invocations per device
MaxSessionAttempts == 1

\* CheckoutScreen as it mounts on a device: cartData and promoData parsed, the
\* profile not yet delivered by useAuth()
SessionMounted(c, address) ==
  [ present |-> TRUE, profile |-> Absent, items |-> c.items, appliedPromo |-> c.promo,
    deliveryAddress |-> address, cart |-> c.items, loading |-> FALSE,
    screen |-> "checkout", alert |-> AlertNone, attempts |-> 0, run |-> IdleRun ]

\* every variable but the sessions and the backing store they write to
settlementFrame ==
  <<user, profile, items, appliedPromo, deliveryAddress, loading, showPaystack,
    showPayPal, orderData, screen, alert, cart, walletRun, onlineRun, attempts,
    lastMethod, succeeded, cancelled, clearedBy, stockValidated, delivered, repeats,
    promoCodes, libCall, productModal>>

SettlementInit ==
  /\ user = "u1"
  /\ profile = Absent
  /\ items = << >>
  /\ appliedPromo = Absent
  /\ deliveryAddress = Str_Empty
  /\ loading = FALSE
  /\ showPaystack = FALSE
  /\ showPayPal = FALSE
  /\ orderData = Absent
  /\ screen = "left"
  /\ alert = AlertNone
  /\ dbBalance \in Balances \cup {Major(10540)}
  /\ orders = << >>
  /\ transactions = << >>
  /\ cart = << >>
  /\ walletRun = IdleRun
  /\ onlineRun = [i \in Slots |-> IdleRun]
  /\ attempts = 0
  /\ lastMethod = None
  /\ succeeded = {}
  /\ cancelled = {}
  /\ clearedBy = {}
  /\ stockValidated = {}
  /\ delivered = {}
  /\ repeats = 0
  /\ walletHistory = [initial |-> dbBalance, debited |-> 0]
  /\ promoCodes = PROMO_CODES
  /\ libCall = NoCall
  /\ productModal = ProductModalMounted
  /\ sessions \in [Devices -> {SessionMounted(c, a) :
                                c \in Checkouts, a \in {Str_Lagos, Str_EnuguPadded}}]

\* useAuth() delivers the profile row of the account as the store holds it
\* (line 17)
SessionLoadProfile(d) ==
  /\ ~sessions[d].profile.present
  /\ sessions' = [sessions EXCEPT ![d].profile =
                    Profile(dbBalance, "NGN", Str_Lagos)]
  /\ UNCHANGED <<settlementFrame, storeVars, walletHistory>>

\* the run processWalletPayment starts on a device: the values its closure holds
sessionStart(ses) ==
  [ pc |-> "stock", attempt |-> ses.attempts + 1, issued |-> << >>, failedAt |-> None,
    outcome |-> None,
    orderTotals |-> orderTotalsNGN(ses.items, ses.appliedPromo, ses.deliveryAddress),
    discountAmount |->
      handleOrderAmounts(ses.items, ses.appliedPromo, ses.deliveryAddress).discountAmount,
    items |-> ses.items, appliedPromo |-> ses.appliedPromo,
    deliveryAddress |-> ses.deliveryAddress,
    wallet_balance |-> ses.profile.wallet_balance,
    orderId |-> None ]

\* handleOrder('wallet') on a device (lines 83-119): the entry checks, then the
\* balance check against the profile the device holds
SessionPressWallet(d) ==
  LET ses == sessions[d]
      entry == EntryCheck(ses.deliveryAddress, user, ses.profile)
      counted == [ses EXCEPT !.attempts = @ + 1]
  IN /\ ses.screen = "checkout" /\ ~ses.loading
     /\ ses.attempts < MaxSessionAttempts
     /\ sessions' = [sessions EXCEPT ![d] =
          IF entry # "ok" THEN [counted EXCEPT !.alert = entry]
          ELSE IF InsufficientBalance(ses.profile.wallet_balance,
                    orderTotalsNGN(ses.items, ses.appliedPromo, ses.deliveryAddress).total)
            THEN [counted EXCEPT !.alert = AlertInsufficient,
                                 !.run = [IdleRun EXCEPT !.attempt = ses.attempts + 1,
                                                         !.outcome = "insufficient"]]
          ELSE [counted EXCEPT !.loading = TRUE, !.run = sessionStart(ses)]]
     /\ UNCHANGED <<settlementFrame, storeVars, walletHistory>>

\* what a device shows once its run has stepped to `run` (lines 153-158, 235-241)
SessionAfter(ses, run) ==
  [ses EXCEPT !.run = Returned(run),
              !.loading = (IF run.pc = "idle" THEN FALSE ELSE @),
              !.alert = (IF run.pc # "idle" THEN @
                         ELSE IF run.outcome = "success" THEN AlertOrderPlaced
                         ELSE handleOrderCatch(Thrown(run.failedAt))),
              !.screen = (IF run.pc = "idle" /\ run.outcome = "success" THEN "left" ELSE @)]

\* supabase.rpc('validate_stock_availability') (lines 174-180)
SessionValidateStock(d) ==
  /\ sessions[d].run.pc = "stock"
  /\ \E ok \in BOOLEAN :
       sessions' = [sessions EXCEPT ![d] =
         SessionAfter(@, RunAfter(sessions[d].run, "stock", ok,
                                  walletAfter("stock"), "failed"))]
  /\ UNCHANGED <<settlementFrame, storeVars, walletHistory>>

\* supabase.from('orders').insert(...).select().single() (lines 183-203)
SessionInsertOrder(d) ==
  /\ sessions[d].run.pc = "order"
  /\ \E ok \in BOOLEAN :
       LET id == OrderId(Len(orders) + 1)
           run == RunAfter(sessions[d].run, "order", ok, walletAfter("order"), "failed")
       IN /\ orders' = (IF ok
                          THEN Append(orders, [walletOrder(sessions[d].run, id)
                                                 EXCEPT !.attempt = <<d, @>>])
                          ELSE orders)
          /\ sessions' = [sessions EXCEPT ![d] =
               SessionAfter(@, [run EXCEPT !.orderId = IF ok THEN id ELSE @])]
  /\ UNCHANGED <<settlementFrame, dbBalance, transactions, walletHistory>>

\* supabase.from('profiles').update({wallet_balance: profile!.wallet_balance -
\* orderTotals.total}) (lines 209-216): the balance the device's profile holds
\* less the total is written over the stored balance
SessionUpdateBalance(d) ==
  /\ sessions[d].run.pc = "wallet"
  /\ \E ok \in BOOLEAN :
       LET run == sessions[d].run
       IN /\ dbBalance' = (IF ok THEN run.wallet_balance - run.orderTotals.total
                           ELSE dbBalance)
          /\ walletHistory' = (IF ok THEN [walletHistory EXCEPT
                                             !.debited = @ + run.orderTotals.total]
                               ELSE walletHistory)
          /\ sessions' = [sessions EXCEPT ![d] =
               SessionAfter(@, RunAfter(sessions[d].run, "wallet", ok,
                                        walletAfter("wallet"), "failed"))]
  /\ UNCHANGED <<settlementFrame, orders, transactions>>

\* supabase.from('transactions').insert(...) (lines 219-230)
SessionInsertTransaction(d) ==
  /\ sessions[d].run.pc = "ledger"
  /\ \E ok \in BOOLEAN :
       /\ transactions' = (IF ok
                             THEN Append(transactions,
                                         [walletTransaction(sessions[d].run)
                                            EXCEPT !.attempt = <<d, @>>])
                             ELSE transactions)
       /\ sessions' = [sessions EXCEPT ![d] =
            SessionAfter(@, RunAfter(sessions[d].run, "ledger", ok,
                                     walletAfter("ledger"), "failed"))]
  /\ UNCHANGED <<settlementFrame, dbBalance, orders, walletHistory>>

\* await refreshProfile() (line 232): the device fetches the profile row again
SessionRefreshProfile(d) ==
  /\ sessions[d].run.pc = "refresh"
  /\ sessions' = [sessions EXCEPT ![d] =
       [SessionAfter(@, RunAfter(sessions[d].run, "refresh", TRUE,
                                 walletAfter("refresh"), "failed"))
          EXCEPT !.profile.wallet_balance = dbBalance]]
  /\ UNCHANGED <<settlementFrame, storeVars, walletHistory>>

\* await clearCart() (line 233), then the success alert (lines 235-241)
SessionClearCart(d) ==
  /\ sessions[d].run.pc = "cart"
  /\ \E ok \in BOOLEAN :
       sessions' = [sessions EXCEPT ![d] =
         [SessionAfter(@, RunAfter(sessions[d].run, "cart", ok,
                                   walletAfter("cart"), "failed"))
            EXCEPT !.cart = IF ok THEN << >> ELSE @]]
  /\ UNCHANGED <<settlementFrame, storeVars, walletHistory>>

SettlementNext ==
  \E d \in Devices :
    \/ SessionLoadProfile(d)
    \/ SessionPressWallet(d)
    \/ SessionValidateStock(d)
    \/ SessionInsertOrder(d)
    \/ SessionUpdateBalance(d)
    \/ SessionInsertTransaction(d)
    \/ SessionRefreshProfile(d)
    \/ SessionClearCart(d)

SettlementSpec == SettlementInit /\ [][SettlementNext]_vars

(***************************************************************************)
(* What is rendered into the processors' widgets (checkout.tsx, 524-562).  *)
(***************************************************************************)
\* <PaystackPayment amount={orderData.total} />
PaystackProps == [amount |-> orderData.total]
\* <PayPalPayment amount={orderData.original_amount} currency={orderData.currency} />
PayPalProps == [amount |-> orderData.original_amount, currency |-> orderData.currency]

(***************************************************************************)
(* Vocabulary of the properties.                                           *)
(***************************************************************************)
Range(s) == {s[i] : i \in 1..Len(s)}
IsPrefix(p, s) == Len(p) <= Len(s) /\ SubSeq(s, 1, Len(p)) = p

\* the step is an invocation of handleOrder; it reads deliveryAddress'
HandleOrderStep == attempts' = attempts + 1

\* the totals handleOrder computes in a HandleOrderStep
StepTotals == orderTotalsNGN(items, appliedPromo, deliveryAddress')

\* the step changes no record of the backing store and not the cart
NoMutation ==
  /\ orders' = orders
  /\ transactions' = transactions
  /\ dbBalance' = dbBalance
  /\ cart' = cart

\* the run r issues the call `step` in this step and becomes r2
Issues(r, r2, step) ==
  /\ r.pc = step
  /\ r2.attempt = r.attempt
  /\ r2.issued = Append(r.issued, step)

OrdersOf(k) == {o \in Range(orders) : o.attempt = k}
TransactionsOf(k) == {t \in Range(transactions) : t.attempt = k}
IsOnlineOrder(o) == o.payment_method # "wallet"
IsOnlineTransaction(t) == "payment_provider" \in DOMAIN t

\* the remote operations of a wallet settlement, in the order of the claim
WalletOperations == <<"stock", "order", "wallet", "ledger", "cart">>
IsWalletOperation(step) == step \in Range(WalletOperations)

(***************************************************************************)
(* C1.  Wallet path, insufficient funds: when handleOrder('wallet') runs   *)
(* with profile.wallet_balance strictly below the order total (both NGN),  *)
(* the attempt ends in that step without any mutation: no order is         *)
(* inserted, the wallet balance is not updated, no ledger transaction is   *)
(* inserted, the cart is not cleared, and the attempt has issued no call.  *)
(***************************************************************************)
C1_Precondition ==
  /\ HandleOrderStep
  /\ lastMethod' = "wallet"
  /\ Trim(deliveryAddress') # << >> /\ user # None /\ profile.present
  /\ profile.wallet_balance < StepTotals.total

\* C1: a wallet attempt with balance < total ends in its first step, nothing mutated
C1_InsufficientFundsNoMutation ==
  [][ C1_Precondition =>
        /\ NoMutation
        /\ walletRun'.pc = "idle"
        /\ walletRun'.attempt = attempts'
        /\ walletRun'.issued = << >>
        /\ walletRun'.outcome = "insufficient"
        /\ alert' = AlertInsufficient
        /\ ~loading' ]_vars

\* the balance is one cent below the total of 4520.00 and the attempt was refused
C1_Witness ==
  /\ profile.present /\ profile.wallet_balance = Minor(451999)
  /\ orderTotalsNGN(items, appliedPromo, deliveryAddress).total = Major(4520)
  /\ alert = AlertInsufficient
  /\ walletRun.outcome = "insufficient"
  /\ walletRun.attempt = attempts
  /\ orders = << >> /\ transactions = << >> /\ cart # << >>

(***************************************************************************)
(* C2.  Wallet path ordering: the remote operations of a wallet settlement *)
(* are issued one at a time in the order stock validation, order insert,   *)
(* wallet balance update, ledger insert, cart clear; the wallet balance    *)
(* update is issued only after stock validation succeeded and the order    *)
(* record was created earlier in the same attempt, and nothing else writes *)
(* the wallet balance.                                                     *)
(***************************************************************************)
C2_IssuedInOrder(run) ==
  IsPrefix(SelectSeq(run.issued, IsWalletOperation), WalletOperations)

\* C2: wallet calls go stock, order, wallet, ledger, cart; the debit follows stock and order
C2_WalletPathOrdering ==
  [][ /\ C2_IssuedInOrder(walletRun')
      /\ Issues(walletRun, walletRun', "wallet") =>
           /\ walletRun.issued = <<"stock", "order">>
           /\ walletRun.failedAt = None
           /\ walletRun.attempt \in stockValidated
           /\ \E o \in OrdersOf(walletRun.attempt) :
                o.id = walletRun.orderId /\ o.payment_method = "wallet"
      /\ dbBalance' # dbBalance => Issues(walletRun, walletRun', "wallet") ]_vars

\* a wallet settlement that ran to its end
C2_Witness ==
  /\ walletRun.outcome = "success"
  /\ SelectSeq(walletRun.issued, IsWalletOperation) = WalletOperations
  /\ dbBalance < Major(20000)

(***************************************************************************)
(* C3.  Stock failure aborts before any mutation: in the wallet path and   *)
(* in the external-payment completion, when the stock validation call      *)
(* fails, the step mutates nothing and the run ends having issued no other *)
(* call: no order insert, no wallet update, no ledger insert, no cart      *)
(* clear in that attempt.                                                  *)
(***************************************************************************)
C3_StockFailed(r, r2) == Issues(r, r2, "stock") /\ r2.failedAt = "stock"

C3_Aborted(r2) == r2.pc = "idle" /\ r2.issued = <<"stock">>

\* C3: a failed stock validation mutates nothing and ends the run, in both paths
C3_StockFailureNoMutation ==
  [][ /\ C3_StockFailed(walletRun, walletRun') =>
           NoMutation /\ C3_Aborted(walletRun') /\ clearedBy' = clearedBy
      /\ \A i \in Slots :
           C3_StockFailed(onlineRun[i], onlineRun'[i]) =>
             NoMutation /\ C3_Aborted(onlineRun'[i]) /\ clearedBy' = clearedBy ]_vars

\* both paths have failed on the stock validation
C3_Witness ==
  /\ walletRun.failedAt = "stock"
  /\ \E i \in Slots : onlineRun[i].failedAt = "stock"

(***************************************************************************)
(* C4.  External-payment path, deferred commit: from handleOrder('card' or *)
(* 'paypal') until a success callback arrives no order record and no       *)
(* ledger transaction exist for that attempt; handleOrder itself inserts   *)
(* nothing, and an order of the external path is inserted only by a run    *)
(* that a success callback started.                                        *)
(***************************************************************************)
\* C4: orders and ledger entries of the external path belong to attempts whose success
\* callback has arrived
C4_DeferredCommit ==
  /\ \A o \in Range(orders) : IsOnlineOrder(o) => o.attempt \in succeeded
  /\ \A t \in Range(transactions) : IsOnlineTransaction(t) => t.attempt \in succeeded
  /\ \A i \in Slots : onlineRun[i].pc # "idle" => onlineRun[i].attempt \in succeeded
  /\ (orderData.present /\ orderData.attempt \notin succeeded) =>
        OrdersOf(orderData.attempt) = {} /\ TransactionsOf(orderData.attempt) = {}

\* a first external payment was committed and a second one awaits its processor
C4_Witness ==
  /\ \E o \in Range(orders) : IsOnlineOrder(o)
  /\ showPaystack /\ orderData.present
  /\ orderData.attempt \notin succeeded
  /\ OrdersOf(orderData.attempt) = {}

(***************************************************************************)
(* C5.  Cancel callback: a cancel callback of either processor abandons    *)
(* the attempt: the step mutates nothing, the modal flag of the processor  *)
(* and the loading flag are false after it, and no order record, no ledger *)
(* transaction and no cart clearing ever belongs to a cancelled attempt.   *)
(***************************************************************************)
C5_CancelStep == cancelled' # cancelled

C5_Abandoned ==
  \A k \in cancelled :
    OrdersOf(k) = {} /\ TransactionsOf(k) = {} /\ k \notin clearedBy /\ k \notin succeeded

\* C5: a cancel callback mutates nothing, releases modal and loading flags, and a
\* cancelled attempt never has an order, a ledger entry or a cart clearing
C5_CancelAbandons ==
  [][ /\ C5_CancelStep =>
           /\ NoMutation
           /\ showPaystack => ~showPaystack'
           /\ showPayPal => ~showPayPal'
           /\ ~loading'
           /\ alert' = AlertCancelled
           /\ UNCHANGED <<walletRun, onlineRun>>
      /\ C5_Abandoned' ]_vars

\* an attempt was cancelled and the screen is released
C5_Witness ==
  /\ cancelled # {}
  /\ alert = AlertCancelled
  /\ ~showPaystack /\ ~showPayPal /\ ~loading
  /\ cart # << >>

(***************************************************************************)
(* C6.  Cart clearing is last: in both settlement paths the cart is        *)
(* cleared only by a run whose every preceding step (stock validation,     *)
(* order insert, wallet update on the wallet path, ledger insert) has      *)
(* succeeded, and in every state where settlement has cleared the cart an  *)
(* order record and its ledger transaction exist.                          *)
(***************************************************************************)
C6_ClearsCart(r, r2) == Issues(r, r2, "cart")

C6_Committed(r) ==
  /\ r.failedAt = None
  /\ r.attempt \in stockValidated
  /\ \E o \in OrdersOf(r.attempt) : o.id = r.orderId
  /\ \E t \in TransactionsOf(r.attempt) :
       t.reference = (IF IsOnlineTransaction(t) THEN r.reference ELSE r.orderId)

C6_Recorded ==
  \A k \in clearedBy : OrdersOf(k) # {} /\ TransactionsOf(k) # {}

\* C6: the cart is cleared only by a run whose earlier steps all succeeded, and a
\* cleared cart comes with an order and its ledger entry
C6_CartClearedLast ==
  [][ /\ C6_ClearsCart(walletRun, walletRun') =>
           /\ walletRun.issued = <<"stock", "order", "wallet", "ledger", "refresh">>
           /\ C6_Committed(walletRun)
      /\ \A i \in Slots :
           C6_ClearsCart(onlineRun[i], onlineRun'[i]) =>
             /\ onlineRun[i].issued = <<"stock", "order", "ledger">>
             /\ C6_Committed(onlineRun[i])
      /\ (cart' # cart \/ clearedBy' # clearedBy) =>
           \/ C6_ClearsCart(walletRun, walletRun')
           \/ \E i \in Slots : C6_ClearsCart(onlineRun[i], onlineRun'[i])
      /\ C6_Recorded' ]_vars

\* a wallet settlement and an external settlement have each cleared the cart
C6_Witness ==
  /\ cart = << >>
  /\ \E k \in clearedBy : \E o \in OrdersOf(k) : ~IsOnlineOrder(o)
  /\ \E k \in clearedBy : \E o \in OrdersOf(k) : IsOnlineOrder(o)

(***************************************************************************)
(* C7.  A failed step does not advance: in either settlement path, when a  *)
(* remote step (stock validation, order insert, wallet update, ledger      *)
(* insert) fails, the run ends in a failed outcome with the failed call    *)
(* the last one it issued, and it issues no call afterwards.               *)
(***************************************************************************)
C7_Stopped(r, failure) ==
  r.failedAt # None =>
    /\ r.pc = "idle"
    /\ r.outcome = failure
    /\ r.issued # << >>
    /\ r.issued[Len(r.issued)] = r.failedAt

\* a run that has failed stays as it is until another run takes its place
C7_Stays(r, r2) == r.failedAt # None => (r2 = r \/ r2.issued = << >>)

\* C7: a run whose step failed has ended in a failed outcome and issues nothing more
C7_FailedStepDoesNotAdvance ==
  [][ /\ C7_Stopped(walletRun', "failed")
      /\ C7_Stays(walletRun, walletRun')
      /\ \A i \in Slots :
           /\ C7_Stopped(onlineRun'[i], "followup")
           /\ C7_Stays(onlineRun[i], onlineRun'[i]) ]_vars

\* the wallet update failed after the order was created, and an external
\* completion failed on its ledger insert
C7_Witness ==
  /\ walletRun.failedAt = "wallet"
  /\ walletRun.issued = <<"stock", "order", "wallet">>
  /\ \E i \in Slots : onlineRun[i].failedAt = "ledger"

(***************************************************************************)
(* C8.  Entry conditions: if the delivery address is empty after trimming, *)
(* or the user or the profile is absent, handleOrder ends with a           *)
(* validation alert and orchestration never begins: the loading flag is    *)
(* not set, no totals are committed, no run is started, no remote call is  *)
(* issued and no payment modal is opened, for every payment method.        *)
(***************************************************************************)
C8_EntryFails ==
  \/ Trim(deliveryAddress') = << >>
  \/ user = None
  \/ ~profile.present

\* C8: handleOrder with a blank address or without user or profile only raises the
\* validation alert
C8_EntryConditions ==
  [][ (HandleOrderStep /\ C8_EntryFails) =>
        /\ alert' = (IF Trim(deliveryAddress') = << >> THEN AlertAddressRequired
                     ELSE AlertAuthRequired)
        /\ ~loading /\ ~loading'
        /\ NoMutation
        /\ UNCHANGED <<orderData, showPaystack, showPayPal, walletRun, onlineRun,
                       stockValidated>> ]_vars

\* an address of spaces only was refused at the PayPal button
C8_Witness ==
  /\ alert = AlertAddressRequired
  /\ lastMethod = "paypal"
  /\ Trim(deliveryAddress) = << >> /\ deliveryAddress # << >>
  /\ ~orderData.present /\ ~showPayPal /\ ~loading

(***************************************************************************)
(* C9.  Provider selection: for every non-wallet payment method and every  *)
(* display currency exactly one processor is opened: Paystack if and only  *)
(* if the method is 'card' and the display currency is NGN, otherwise      *)
(* PayPal; PayPal is given the order total converted from NGN to the       *)
(* display currency (and that currency), Paystack the NGN total.           *)
(***************************************************************************)
C9_Methods == {"card", "paypal"}
C9_Currencies == DOMAIN DELIVERY_FEES_BY_CURRENCY

C9_Selection ==
  \A m \in C9_Methods, c \in C9_Currencies :
    /\ SelectProcessor(m, c) \in {"paystack", "paypal"}
    /\ SelectProcessor(m, c) = "paystack" <=> (m = "card" /\ c = "NGN")

\* C9: exactly one processor opens, Paystack iff card and NGN; PayPal gets the converted
\* total, Paystack the NGN total
C9_ProviderSelection ==
  [][ /\ C9_Selection
      /\ (HandleOrderStep /\ ~C8_EntryFails /\ lastMethod' \in C9_Methods) =>
           /\ showPaystack' # showPayPal'
           /\ showPaystack' <=> (lastMethod' = "card" /\ userCurrency = "NGN")
           /\ orderData'.attempt = attempts'
           /\ showPaystack' => PaystackProps' = [amount |-> StepTotals.total]
           /\ showPayPal' =>
                PayPalProps' = [amount |-> convertFromNGN(StepTotals.total, userCurrency),
                                currency |-> userCurrency] ]_vars

\* PayPal is open for a USD profile with an amount that is not the NGN total
C9_Witness ==
  /\ showPayPal /\ ~showPaystack
  /\ orderData.present
  /\ userCurrency = "USD"
  /\ PayPalProps.currency = "USD"
  /\ PayPalProps.amount # orderData.total

(***************************************************************************)
(* C10.  External-payment path validates stock twice: stock validation is  *)
(* run before the external processor is opened, so an attempt whose items  *)
(* are unavailable never awaits payment, and it is run again on the        *)
(* success callback before the order is inserted.                          *)
(***************************************************************************)
\* C10: stock is validated before a processor is opened and again before the order
\* of a success callback is inserted
C10_StockValidatedTwice ==
  /\ ((showPaystack \/ showPayPal) /\ orderData.present) =>
        orderData.attempt \in stockValidated
  /\ \A o \in Range(orders) : IsOnlineOrder(o) => o.attempt \in stockValidated

(***************************************************************************)
(* C11.  Stock failure is surfaced verbatim: when the stock validation     *)
(* call fails, the outcome reported to the user carries the validator's    *)
(* own failure, naming the unavailable items, and differs from the outcome *)
(* reported for any other remote failure, in both paths.                   *)
(***************************************************************************)
\* the calls of a settlement other than the stock validation
C11_OtherCalls == {"order", "wallet", "ledger", "cart"}

\* the alert `a` carries the validator's failure and no other failure is
\* reported with it
C11_Surfaced(a) ==
  /\ a \in {StockValidationMessage, Thrown("stock").message,
             "Error: " \o Thrown("stock").message}
  /\ \A step \in C11_OtherCalls :
       a # handleOrderCatch(Thrown(step)) /\ a # completeOnlinePaymentCatch(Thrown(step))

\* C11: the alert raised by a failed stock validation is the validator's failure,
\* in the wallet path and in the completion of an external payment
C11_StockFailureSurfaced ==
  [][ /\ C3_StockFailed(walletRun, walletRun') => C11_Surfaced(alert')
      /\ \A i \in Slots :
           C3_StockFailed(onlineRun[i], onlineRun'[i]) => C11_Surfaced(alert') ]_vars

(***************************************************************************)
(* C12.  Partial-commit reporting: in both settlement paths, when the      *)
(* order insert succeeded and a later step of the same attempt (wallet     *)
(* update, ledger insert, cart clear) fails, the user is shown the         *)
(* 'payment succeeded but order follow-up failed' message and not the      *)
(* generic failure; no retry and no compensating call is issued.           *)
(***************************************************************************)
\* the run r, whose order insert succeeded, fails in this step and becomes r2
C12_FailsAfterOrder(r, r2) ==
  /\ r.pc \in {"wallet", "ledger", "cart"}
  /\ r.orderId # None
  /\ Issues(r, r2, r.pc)
  /\ r2.failedAt = r.pc

\* the follow-up message is shown, and the run ends without another call
C12_Reported(r2) ==
  /\ alert' = AlertFollowUpFailed
  /\ alert' # AlertOrderFailed
  /\ r2.pc = "idle"
  /\ NoMutation

\* C12: a failure after the order insert is reported with the follow-up message,
\* in the wallet path and in the completion of an external payment
C12_PartialCommitReported ==
  [][ /\ C12_FailsAfterOrder(walletRun, walletRun') => C12_Reported(walletRun')
      /\ \A i \in Slots :
           C12_FailsAfterOrder(onlineRun[i], onlineRun'[i]) =>
             C12_Reported(onlineRun'[i]) ]_vars

(***************************************************************************)
(* C13.  The order record created on an external-payment success callback  *)
(* has payment_status = paid and carries the reference token reported by   *)
(* the payment processor.                                                  *)
(***************************************************************************)
\* the references the processors reported for the attempt k
C13_ReferencesOf(k) == {d.reference : d \in {e \in delivered : e.orderData.attempt = k}}

\* C13: every order of the external path is paid and holds its processor's reference
C13_OrderCarriesReference ==
  \A o \in Range(orders) :
    IsOnlineOrder(o) =>
      /\ o.payment_status = "paid"
      /\ "reference" \in DOMAIN o
      /\ o.reference \in C13_ReferencesOf(o.attempt)

(***************************************************************************)
(* C14.  In every reachable state, every order record created by           *)
(* settlement has a payment method that is one of wallet, card or paypal.  *)
(***************************************************************************)
\* the payment methods of the Order entity
C14_PaymentMethods == {"wallet", "card", "paypal"}

\* C14: the payment method stored on an order is wallet, card or paypal
C14_PaymentMethodDomain ==
  \A o \in Range(orders) : o.payment_method \in C14_PaymentMethods

(***************************************************************************)
(* C15.  Ledger entries are tied to orders: every ledger transaction of    *)
(* the wallet path has type debit, the total of an order created earlier   *)
(* in the same attempt as amount and that order's id as reference; every   *)
(* ledger transaction of the external path is tagged with the provider and *)
(* the processor's reference; there are never more ledger transactions     *)
(* than order records.                                                     *)
(***************************************************************************)
C15_WalletEntry(t) ==
  /\ t.type = "debit"
  /\ \E o \in OrdersOf(t.attempt) :
       /\ o.payment_method = "wallet"
       /\ o.id = t.reference
       /\ o.total = t.amount

C15_OnlineEntry(t) ==
  /\ t.payment_provider \in {"paystack", "paypal"}
  /\ \E d \in delivered :
       /\ d.orderData.attempt = t.attempt
       /\ d.provider = t.payment_provider
       /\ d.reference = t.reference

\* C15: a ledger entry refers to its order (wallet) or to its processor's payment
\* (external), and the ledger is never longer than the orders table
C15_LedgerTiedToOrders ==
  /\ \A t \in Range(transactions) :
       IF IsOnlineTransaction(t) THEN C15_OnlineEntry(t) ELSE C15_WalletEntry(t)
  /\ Len(transactions) <= Len(orders)

\* the ledger holds an entry of each path
C15_Witness ==
  /\ \E t \in Range(transactions) : IsOnlineTransaction(t)
  /\ \E t \in Range(transactions) : ~IsOnlineTransaction(t)
  /\ Len(transactions) = Len(orders)

(***************************************************************************)
(* C16.  Balance boundary: a wallet settlement whose wallet balance equals *)
(* the order total is not rejected by the balance check; when every remote *)
(* call succeeds it ends with one order, one ledger transaction, the cart  *)
(* cleared and a stored wallet balance of zero.                            *)
(***************************************************************************)
\* handleOrder('wallet') passes the entry checks with a balance equal to the total
C16_AtBoundary ==
  /\ HandleOrderStep
  /\ lastMethod' = "wallet"
  /\ EntryCheck(deliveryAddress', user, profile) = "ok"
  /\ profile.wallet_balance = StepTotals.total

\* the wallet run, started with a balance equal to the total, makes its last call
\* and every call of it has succeeded
C16_Completes ==
  /\ walletRun.pc = "cart"
  /\ walletRun.wallet_balance = walletRun.orderTotals.total
  /\ walletRun'.outcome = "success"

C16_Done ==
  /\ walletRun'.pc = "idle"
  /\ Cardinality(OrdersOf(walletRun.attempt)) = 1
  /\ Cardinality(TransactionsOf(walletRun.attempt)) = 1
  /\ cart' = << >>
  /\ dbBalance' = 0
  /\ alert' = AlertOrderPlaced

\* C16: a balance equal to the total passes the balance check, and the settlement
\* that succeeds leaves one order, one ledger entry, an empty cart and balance zero
C16_BalanceBoundary ==
  [][ /\ C16_AtBoundary =>
           /\ walletRun'.pc = "stock"
           /\ walletRun'.attempt = attempts'
           /\ alert' = alert
           /\ loading'
      /\ C16_Completes => C16_Done ]_vars

\* the whole balance of 4520.00 paid for a total of 4520.00
C16_Witness ==
  /\ walletRun.outcome = "success"
  /\ dbBalance = 0
  /\ \E o \in OrdersOf(walletRun.attempt) : o.total = Major(4520)
  /\ cart = << >>

(***************************************************************************)
(* C17.  No rollback: once a step has committed, a failure of a later step *)
(* leaves it in place.  If the wallet update or the ledger insert fails    *)
(* after the order insert, the order record still exists unchanged; if the *)
(* ledger insert fails after the wallet update, the debited balance stays; *)
(* no update or delete is ever issued on the order store.                  *)
(***************************************************************************)
\* the run r, which has committed its order, fails at `step` and becomes r2
C17_FailsAt(r, r2, step) ==
  /\ Issues(r, r2, step)
  /\ r2.failedAt = step
  /\ r.orderId # None

\* the order the run created is in the store as it was
C17_OrderKept(r) ==
  /\ \E n \in 1..Len(orders) : orders[n].id = r.orderId /\ orders'[n] = orders[n]
  /\ Len(orders') = Len(orders)

\* C17: the order store only grows, and a step failing after a commit undoes nothing
C17_NoRollback ==
  [][ /\ IsPrefix(orders, orders')
      /\ IsPrefix(transactions, transactions')
      /\ \A step \in {"wallet", "ledger"} :
           C17_FailsAt(walletRun, walletRun', step) =>
             C17_OrderKept(walletRun) /\ dbBalance' = dbBalance
      /\ C17_FailsAt(walletRun, walletRun', "ledger") =>
           dbBalance' = walletRun.wallet_balance - walletRun.orderTotals.total
      /\ \A i \in Slots : \A step \in {"ledger", "cart"} :
           C17_FailsAt(onlineRun[i], onlineRun'[i], step) => C17_OrderKept(onlineRun[i]) ]_vars

\* the ledger insert failed: the order is kept and the debit stays, while the
\* profile the screen holds still shows the balance before the debit
C17_Witness ==
  /\ walletRun.failedAt = "ledger"
  /\ OrdersOf(walletRun.attempt) # {}
  /\ TransactionsOf(walletRun.attempt) = {}
  /\ profile.present /\ dbBalance < profile.wallet_balance

(***************************************************************************)
(* C18.  No deduplication of success callbacks: a second success callback  *)
(* carrying the same reference as an earlier one runs the whole completion *)
(* again, so that, when the remote calls succeed, a second order record    *)
(* and a second ledger transaction with the same reference are created.    *)
(***************************************************************************)
\* a success callback is delivered a second time in this step
C18_RepeatStep == repeats' = repeats + 1

\* a completion starts from its first call with a reference delivered before
C18_RunsAgain ==
  \E i \in Slots :
    /\ onlineRun[i].pc = "idle"
    /\ onlineRun'[i].pc = "stock"
    /\ onlineRun'[i].issued = << >>
    /\ \E d \in delivered :
         /\ onlineRun'[i].reference = d.reference
         /\ onlineRun'[i].provider = d.provider
         /\ onlineRun'[i].orderData = d.orderData

\* the run r inserts what it is about to insert whatever the tables hold
C18_Inserts(r, r2) ==
  /\ (Issues(r, r2, "order") /\ r2.failedAt = None) =>
        /\ Len(orders') = Len(orders) + 1
        /\ orders'[Len(orders')].attempt = r.attempt
  /\ (Issues(r, r2, "ledger") /\ r2.failedAt = None) =>
        /\ Len(transactions') = Len(transactions) + 1
        /\ transactions'[Len(transactions')].reference = r.reference

\* C18: a repeated success callback starts a whole completion, which inserts its
\* own order and its own ledger entry
C18_NoDeduplication ==
  [][ /\ C18_RepeatStep => C18_RunsAgain
      /\ \A i \in Slots : C18_Inserts(onlineRun[i], onlineRun'[i]) ]_vars

\* one reference, two orders of the attempt and two ledger entries
C18_Witness ==
  /\ repeats > 0
  /\ \E m, n \in 1..Len(transactions) :
       /\ m < n
       /\ IsOnlineTransaction(transactions[m]) /\ IsOnlineTransaction(transactions[n])
       /\ transactions[m].reference = transactions[n].reference
  /\ \E m, n \in 1..Len(orders) :
       /\ m < n
       /\ IsOnlineOrder(orders[m]) /\ IsOnlineOrder(orders[n])
       /\ orders[m].attempt = orders[n].attempt

(***************************************************************************)
(* C19.  The wallet balance is changed only by the wallet path: no step of *)
(* the external-payment path (begin, success callback and completion,      *)
(* cancel) and no failed entry check writes the profile's wallet balance.  *)
(***************************************************************************)
\* the step belongs to the external-payment path
C19_ExternalStep ==
  \/ HandleOrderStep /\ lastMethod' \in {"card", "paypal"}
  \/ delivered' # delivered
  \/ repeats' # repeats
  \/ cancelled' # cancelled
  \/ onlineRun' # onlineRun

\* handleOrder is refused by an entry check
C19_EntryRefused ==
  HandleOrderStep /\ EntryCheck(deliveryAddress', user, profile) # "ok"

\* C19: the external path and a refused handleOrder leave the wallet balance alone,
\* in the store and in the profile the screen holds
C19_BalanceOnlyByWalletPath ==
  [][ (C19_ExternalStep \/ C19_EntryRefused) =>
        dbBalance' = dbBalance /\ profile' = profile ]_vars

\* an external payment was completed and the balance is what it was
C19_Witness ==
  /\ \E i \in Slots : onlineRun[i].outcome = "success"
  /\ \E t \in Range(transactions) : IsOnlineTransaction(t) /\ t.amount > 0
  /\ cancelled # {}
  /\ profile.present /\ profile.wallet_balance = Major(20000)
  /\ dbBalance = Major(20000)

(***************************************************************************)
(* C20.  Display currency does not influence order arithmetic: for         *)
(* checkouts with the same cart, promo and delivery address that differ    *)
(* only in the preferred display currency, the subtotal, service fee,      *)
(* delivery fee, discount amount and total stored on the order are the     *)
(* same, namely the values computed in the base currency NGN.              *)
(***************************************************************************)
\* the promo an order was priced with
C20_PromoOf(o) == IF o.promo_code = None THEN Absent ELSE PROMO_CODES[o.promo_code]

\* the amounts of the order computed in NGN from its own line items, promo and
\* address: nothing of the user's profile enters
C20_BaseAmounts(o) ==
  LET priced == handleOrderAmounts(o.items, C20_PromoOf(o), o.delivery_address)
      discount == priced.discountAmount
      totals == priced.orderTotals
  IN [ subtotal |-> totals.subtotal, service_fee |-> totals.serviceFee,
       delivery_fee |-> totals.deliveryFee, discount_amount |-> discount,
       total |-> totals.total ]

C20_StoredAmounts(o) ==
  [ subtotal |-> o.subtotal, service_fee |-> o.service_fee,
    delivery_fee |-> o.delivery_fee, discount_amount |-> o.discount_amount,
    total |-> o.total ]

\* C20: the amounts stored on an order are a function of cart, promo and address
\* computed in NGN, whatever the display currency
C20_CurrencyIndependentTotals ==
  \A o \in Range(orders) : C20_StoredAmounts(o) = C20_BaseAmounts(o)

\* an order of a user whose display currency is USD, delivered to Lagos, with the
\* amounts of the same checkout in NGN (1000 + 20 + 3500)
C20_Witness ==
  /\ userCurrency = "USD"
  /\ \E o \in Range(orders) :
       /\ o.currency = "USD"
       /\ o.promo_code = None
       /\ o.delivery_fee = Major(3500)
       /\ o.total = Major(4520)

(***************************************************************************)
(* C21.  The discount is subtracted exactly once.                          *)
(***************************************************************************)
\* the subtotal of a cart as a decimal: the sum of price times quantity
RECURSIVE C21_Subtotal(_)
C21_Subtotal(its) ==
  IF its = << >> THEN 0
  ELSE Head(its).price * Head(its).quantity + C21_Subtotal(Tail(its))

\* the fraction d of the amount S, d being a whole percentage
C21_Fraction(S, d) == (S * d) \div 100

\* `rounded` is a whole number of hundredths and no other is nearer to `exact`
IsRoundedToCents(rounded, exact) ==
  /\ rounded % 100 = 0
  /\ rounded - exact <= 50
  /\ exact - rounded <= 50

\* C21: a cart of subtotal S priced with a promo of fraction d has discount
\* amount S*d, subtotal S - S*d, a service fee that is 2% of S - S*d in whole
\* hundredths, and total = round(subtotal + serviceFee + deliveryFee, 2): the
\* total is taken from the subtotal that already lacks the discount, and
\* nothing more is taken off
C21_DiscountOnce ==
  libCall.fn = "handleOrder" =>
    LET S == C21_Subtotal(libCall.args[1])
        promo == libCall.args[2]
        discount == IF promo.present THEN C21_Fraction(S, promo.discount) ELSE 0
        totals == libCall.result.orderTotals
    IN /\ libCall.result.discountAmount = discount
       /\ totals.subtotal = S - discount
       /\ IsRoundedToCents(totals.serviceFee,
                           C21_Fraction(S - discount, SERVICE_FEE_PERCENTAGE))
       /\ totals.deliveryFee = calculateDeliveryFee(libCall.args[3], "NGN")
       /\ IsRoundedToCents(totals.total,
                           (S - discount) + totals.serviceFee + totals.deliveryFee)

\* the cart of two lines (3250.55) priced with STUDENT (12%) for Lagos: discount
\* 390.066, subtotal 2860.484, fee 57.21, total 6417.69
C21_Witness ==
  /\ libCall.fn = "handleOrder"
  /\ libCall.args[2].present
  /\ libCall.result.discountAmount = 3900660
  /\ libCall.result.orderTotals.subtotal = 28604840
  /\ libCall.result.orderTotals.serviceFee = Minor(5721)
  /\ libCall.result.orderTotals.total = Minor(641769)

(***************************************************************************)
(* C22.  The service fee is 2% of the subtotal, halves rounded up.         *)
(***************************************************************************)
\* 2% of the amount S rounded to whole hundredths, a half going up
C22_HalfUp(S) == ((S * SERVICE_FEE_PERCENTAGE + 5000) \div 10000) * 100

\* C22: for every subtotal S >= 0 of whole hundredths, calculateServiceFee(S) is
\* S * 0.02 rounded to 2 decimal places with halves rounded up
C22_ServiceFeeHalfUp ==
  libCall.fn = "calculateServiceFee" =>
    libCall.result = C22_HalfUp(libCall.args[1])

(***************************************************************************)
(* C23.  The order total.                                                  *)
(***************************************************************************)
\* C23: calculateOrderTotal returns total = subtotal + serviceFee + deliveryFee
\* rounded to 2 decimals (the sum itself when the subtotal is of whole
\* hundredths), and total >= subtotal; subtotal 1000 to Lagos in NGN gives 4520
C23_OrderTotal ==
  libCall.fn = "calculateOrderTotal" =>
    LET subtotal == libCall.args[1]
        totals == libCall.result
        sum == subtotal + totals.serviceFee + totals.deliveryFee
    IN /\ totals.subtotal = subtotal
       /\ totals.deliveryFee = calculateDeliveryFee(libCall.args[2], libCall.args[3])
       /\ IsRoundedToCents(totals.total, sum)
       /\ subtotal % 100 = 0 => totals.total = sum
       /\ totals.total >= subtotal
       /\ libCall.args = <<Major(1000), Str_Lagos, "NGN">> => totals.total = Major(4520)

\* the example: 1000 to Lagos in NGN is 1000 + 20 + 3500
C23_Witness ==
  /\ libCall.fn = "calculateOrderTotal"
  /\ libCall.args = <<Major(1000), Str_Lagos, "NGN">>
  /\ libCall.result.serviceFee = Major(20)
  /\ libCall.result.deliveryFee = Major(3500)
  /\ libCall.result.total = Major(4520)

(***************************************************************************)
(* C24.  Delivery tier selection.                                          *)
(***************************************************************************)
\* `word` occurs in `location`, letters compared without their case
C24_Contains(location, word) ==
  \E i \in 0..(Len(location) - Len(word)) :
    \A j \in 1..Len(word) : ToLowerChar(location[i + j]) = ToLowerChar(word[j])

C24_ContainsAny(location, words) ==
  \E i \in 1..Len(words) : C24_Contains(location, words[i])

\* the tier the claim gives a location for a currency
C24_Tier(location, currency) ==
  IF location = << >> THEN "local"
  ELSE IF currency = "NGN"
    THEN IF C24_Contains(location, Str_lagos) THEN "local"
         ELSE IF C24_ContainsAny(location, <<Str_nigeria>> \o nigerianStates \o nigerianCities)
           THEN "national"
         ELSE "international"
  ELSE IF C24_ContainsAny(location, <<Str_international, Str_worldwide, Str_global>>)
    THEN "international"
  ELSE "national"

\* the fees of the base currency as the claim states them
C24_BaseFees == [local |-> Major(3500), national |-> Major(5000), international |-> Major(15000)]

\* C24: for every location and every currency of the table, calculateDeliveryFee
\* returns the fee of the tier of that currency's table which the location
\* selects: local for an empty location; for NGN local (3500) when it contains
\* "lagos", else national (5000) when it contains a domestic region or city,
\* else international (15000); for another currency international when it
\* contains "international", "worldwide" or "global", else national; letters
\* match without regard to case
C24_TierSelection ==
  (libCall.fn = "calculateDeliveryFee" /\ libCall.args[2] \in DOMAIN DELIVERY_FEES_BY_CURRENCY) =>
    LET location == libCall.args[1]
        currency == libCall.args[2]
        tier == C24_Tier(location, currency)
    IN /\ libCall.result = DELIVERY_FEES_BY_CURRENCY[currency][tier]
       /\ currency = "NGN" => libCall.result = C24_BaseFees[tier]

\* "LAGOS ISLAND" in NGN is local, 3500
C24_Witness ==
  /\ libCall.fn = "calculateDeliveryFee"
  /\ libCall.args = <<Str_LAGOS_ISLAND, "NGN">>
  /\ libCall.result = Major(3500)

(***************************************************************************)
(* C25.  Promo validation.                                                 *)
(***************************************************************************)
\* the entry has the optional field
C25_IsSet(entry, field) == field \in DOMAIN entry

\* the conditions of the claim for the entry of a code on the day `now`
C25_Valid(entry, now) ==
  /\ entry.isActive
  /\ C25_IsSet(entry, "startDate") => ~(now < entry.startDate)
  /\ C25_IsSet(entry, "endDate") => ~(now > entry.endDate)
  /\ (C25_IsSet(entry, "maxUses") /\ C25_IsSet(entry, "currentUses")) =>
       entry.currentUses < entry.maxUses

\* C25: validatePromoCode(code) returns the promo exactly when the code is in
\* the catalog, is active, the current time is not before startDate and not
\* after endDate (when set) and the usage count is below the cap (when set);
\* otherwise it returns none; the call leaves the catalog and its usage counts
\* as they were
C25_PromoValidation ==
  [][ (libCall.fn = None /\ libCall'.fn = "validatePromoCode") =>
        LET code == libCall'.args[1]
            now == libCall'.args[2]
        IN /\ IF code \in DOMAIN promoCodes /\ C25_Valid(promoCodes[code], now)
                THEN libCall'.result = promoCodes[code]
                ELSE libCall'.result = Absent
           /\ promoCodes' = promoCodes ]_vars

\* WELCOME10, valid from day 2 to day 3, is returned on day 3, its last day
C25_Witness ==
  /\ libCall.fn = "validatePromoCode"
  /\ libCall.args = <<"WELCOME10", 3>>
  /\ promoCodes = PromoCodesWithOptions
  /\ libCall.result = PromoCodesWithOptions["WELCOME10"]

(***************************************************************************)
(* C26.  Cart expansion.                                                   *)
(***************************************************************************)
\* handleAddToCart is invoked in this step
C26_Invoked == productModal.pc = "idle" /\ productModal'.calls = productModal.calls + 1

\* the items of `handed` for the pair (size, color)
C26_ItemsFor(handed, size, color) ==
  {k \in 1..Len(handed) : handed[k].size = size /\ handed[k].color = color}

\* C26: for non-empty selected sizes, non-empty selected colors and quantity
\* q >= 1, handleAddToCart hands addToCart exactly one line item per (size,
\* color) pair, |sizes| * |colors| items in all, each with the full quantity q
\* and the product's price in the base currency; the cart gets these items
C26_CartExpansion ==
  [][ /\ (/\ C26_Invoked
          /\ productModal.selectedSizes # << >>
          /\ productModal.selectedColors # << >>) =>
         LET sizes == productModal.selectedSizes
             colors == productModal.selectedColors
             handed == productModal'.newItems
         IN /\ productModal'.pc = "addToCart"
            /\ Len(handed) = Len(sizes) * Len(colors)
            /\ \A i \in 1..Len(sizes), j \in 1..Len(colors) :
                 Cardinality(C26_ItemsFor(handed, sizes[i], colors[j])) = 1
            /\ \A k \in 1..Len(handed) :
                 /\ handed[k].quantity = productModal.quantity
                 /\ handed[k].price = Product.price
                 /\ handed[k].productId = Product.id
      /\ cart' # cart => cart' = cart \o productModal.newItems ]_vars

\* sizes S and M, colors Red and Blue, quantity 2: the cart received four lines of
\* quantity 2 each
C26_Witness ==
  /\ alert = AlertAddedToCart
  /\ Len(cart) >= 4
  /\ LET added == SubSeq(cart, Len(cart) - 3, Len(cart))
     IN /\ \A k \in 1..4 : added[k].quantity = 2 /\ added[k].price = Major(1000)
        /\ {<<added[k].size, added[k].color>> : k \in 1..4}
             = {"S", "M"} \X {"Red", "Blue"}

(***************************************************************************)
(* C27.  Cart expansion without a size or without a color.                 *)
(***************************************************************************)
\* C27: handleAddToCart invoked with no size or no color selected ends in the
\* validation error: no line item is produced, nothing is handed to the cart,
\* the cart is as it was, and so are the selection, the quantity and the
\* loading flag
C27_ValidationError ==
  [][ (/\ productModal.pc = "idle"
       /\ productModal'.calls = productModal.calls + 1
       /\ \/ productModal.selectedSizes = << >>
          \/ productModal.selectedColors = << >>) =>
        /\ alert' = AlertSelectionRequired
        /\ productModal'.pc = "idle"
        /\ productModal'.newItems = << >>
        /\ cart' = cart
        /\ productModal'.selectedSizes = productModal.selectedSizes
        /\ productModal'.selectedColors = productModal.selectedColors
        /\ productModal'.quantity = productModal.quantity
        /\ productModal'.loading = productModal.loading ]_vars

\* the handler has refused a selection of two sizes and no color, quantity 2
C27_Witness ==
  /\ alert = AlertSelectionRequired
  /\ productModal.calls = 1
  /\ Len(productModal.selectedSizes) = 2
  /\ productModal.selectedColors = << >>
  /\ productModal.quantity = 2
  /\ ~productModal.loading
  /\ productModal.pc = "idle"

(***************************************************************************)
(* C28.  Stock validation before the balance check.                        *)
(***************************************************************************)
\* C28: in the wallet path the stock-validation call precedes the balance
\* check: an attempt that ends with the insufficient-funds outcome has had its
\* stock validated, so that unavailable items end the attempt first
C28_StockBeforeBalanceCheck ==
  walletRun.outcome = "insufficient" =>
    /\ "stock" \in Range(walletRun.issued)
    /\ walletRun.attempt \in stockValidated

(***************************************************************************)
(* C29.  Wallet accounting over a sequence of attempts.                    *)
(***************************************************************************)
\* C29: after any sequence of wallet settlement attempts on one checkout
\* screen, the stored wallet balance is the initial balance minus the sum of
\* the totals of the attempts whose wallet update succeeded, and it is not
\* negative
C29_WalletAccounting ==
  /\ dbBalance = walletHistory.initial - walletHistory.debited
  /\ dbBalance >= 0

(***************************************************************************)
(* C30.  Amounts and their currency tag.                                   *)
(***************************************************************************)
\* the total of the order in NGN, expressed in the currency `currency`
C30_TotalIn(o, currency) == convertFromNGN(C20_BaseAmounts(o).total, currency)

\* C30: for every order record and every ledger transaction written by
\* settlement, the stored total / amount is denominated in the currency of the
\* record's own currency field
C30_AmountsMatchCurrencyTag ==
  /\ \A o \in Range(orders) : o.total = C30_TotalIn(o, o.currency)
  /\ \A t \in Range(transactions) :
       "currency" \in DOMAIN t =>
         \A o \in OrdersOf(t.attempt) : t.amount = C30_TotalIn(o, t.currency)


(***************************************************************************)
(* C31.  Two wallet settlements of one account, interleaved: each reads    *)
(* the balance, checks it against its total and writes the balance less    *)
(* the total.                                                              *)
(***************************************************************************)
\* the settlement on device d has reached the done state: its run returned
\* from every call without an error
C31_Done(d) ==
  /\ sessions[d].present
  /\ sessions[d].run.pc = "idle"
  /\ sessions[d].run.outcome = "success"

\* the total the settlement on device d was priced at
C31_Total(d) ==
  orderTotalsNGN(sessions[d].items, sessions[d].appliedPromo,
                 sessions[d].deliveryAddress).total

\* C31: once both settlements are done, the stored wallet balance is the
\* initial balance less both totals, and it is not negative
C31_InterleavedSettlements ==
  (C31_Done("phone") /\ C31_Done("tablet"))
    => /\ dbBalance = walletHistory.initial - C31_Total("phone") - C31_Total("tablet")
       /\ dbBalance >= 0

=============================================================================
